---- MODULE Spec2Model ----
(***************************************************************************)
(* A model of the archibald query builder: the typestate builders for      *)
(* SELECT / INSERT / UPDATE / DELETE, their to_sql() renderers and their   *)
(* parameters() accessors.                                                 *)
(*                                                                         *)
(* A rendered SQL string is modelled as the sequence of the string pieces  *)
(* the renderer pushes, so that Concat(pieces) is the exact string and a   *)
(* `?` placeholder is always a piece of its own.                           *)
(***************************************************************************)
EXTENDS Integers, Sequences, FiniteSets, TLC

VARIABLES
    b,           \* the builder value at the end of the caller's chain
    out,         \* what to_sql() and parameters() returned on b, if called
    whereCalls,  \* the condition-adding calls of the chain, in call order
    joinCalls,   \* the join calls of the chain, in call order
    orderCalls,  \* the order_by calls of the chain, in call order
    mapCall,     \* the set / values / values_many call of the chain, if made
    txn,         \* one call of transaction(pool, f): position, calls, results
    conv,        \* one operator argument: input, Operator, validate(), SQL
    cl,          \* a base builder, its clones and the memory they live in
    ex           \* one call of an execution method on b: position, calls, result

vars == <<b, out, whereCalls, joinCalls, orderCalls, mapCall, txn, conv, cl, ex>>

(***************************************************************************)
(* Bounds of the model.                                                    *)
(***************************************************************************)
MaxClauses == 2         \* clauses accumulated on one builder
MaxInitialClauses == 2  \* of which before select() is called
MaxRows == 2            \* rows passed to values_many

(***************************************************************************)
(* Generic helpers.                                                        *)
(***************************************************************************)
None == [some |-> FALSE]
Some(x) == [some |-> TRUE, v |-> x]

Ok(x) == [ok |-> TRUE, v |-> x]
Err(e) == [ok |-> FALSE, e |-> e]

RECURSIVE Concat(_)
Concat(pieces) ==
    IF pieces = <<>> THEN ""
    ELSE IF Len(pieces) = 1 THEN pieces[1]
    ELSE LET half == Len(pieces) \div 2
         IN Concat(SubSeq(pieces, 1, half))
            \o Concat(SubSeq(pieces, half + 1, Len(pieces)))

RECURSIVE Flatten(_)
Flatten(ss) ==
    IF ss = <<>> THEN <<>> ELSE Head(ss) \o Flatten(Tail(ss))

RECURSIVE JoinPieces(_, _)
JoinPieces(parts, sep) ==
    IF parts = <<>> THEN <<>>
    ELSE IF Len(parts) = 1 THEN Head(parts)
    ELSE Head(parts) \o <<sep>> \o JoinPieces(Tail(parts), sep)

RECURSIVE FirstErr(_)
FirstErr(results) ==
    IF results = <<>> THEN Ok(<<>>)
    ELSE IF ~Head(results).ok THEN Head(results)
    ELSE FirstErr(Tail(results))

Map(f(_), s) == [i \in 1..Len(s) |-> f(s[i])]

CountPlaceholders(sql) == Cardinality({i \in 1..Len(sql) : sql[i] = "?"})

(***************************************************************************)
(* Value (value.rs) and Error (error.rs).                                  *)
(***************************************************************************)
Value_I32(n) == [tag |-> "I32", i |-> n]
Value_String(s) == [tag |-> "String", s |-> s]
Value_Bool(x) == [tag |-> "Bool", b |-> x]
Value_Array(items) == [tag |-> "Array", items |-> items]

invalid_query(message) == [variant |-> "InvalidQuery", message |-> message]
sql_generation(message) == [variant |-> "SqlGeneration", message |-> message]
\* Error::Database wraps the driver's error; the model keeps its message
Database(message) == [variant |-> "Database", message |-> message]

(***************************************************************************)
(* Operator (operator.rs).                                                 *)
(***************************************************************************)
Known(op) == [variant |-> "Known", op |-> op]
Unknown(op) == [variant |-> "Unknown", op |-> op]

Operator_GT == Known(">")
Operator_LT == Known("<")
Operator_EQ == Known("=")
Operator_NEQ == Known("!=")
Operator_GTE == Known(">=")
Operator_LTE == Known("<=")
Operator_LIKE == Known("LIKE")
Operator_ILIKE == Known("ILIKE")
Operator_IN == Known("IN")
Operator_NOT_IN == Known("NOT IN")
Operator_IS_NULL == Known("IS NULL")
Operator_IS_NOT_NULL == Known("IS NOT NULL")
Operator_EXISTS == Known("EXISTS")
Operator_NOT_EXISTS == Known("NOT EXISTS")

custom(op) == Known(op)

as_str(o) == o.op

\* op.to_uppercase().replace(" ", "_").replace("!", "N") on the tokens the
\* model builds operators from.
SuggestedConstant(op) ==
    CASE op = "like" -> "LIKE"
      [] op = "Like" -> "LIKE"
      [] op = "not in" -> "NOT_IN"
      [] op = "NOT IN" -> "NOT_IN"
      [] op = "!=" -> "N="
      [] op = "ILike" -> "ILIKE"
      [] op = "In" -> "IN"
      [] op = "Not In" -> "NOT_IN"
      [] op = "Is Null" -> "IS_NULL"
      [] op = "is NOT null" -> "IS_NOT_NULL"
      [] op = "Exists" -> "EXISTS"
      [] op = "Not exists" -> "NOT_EXISTS"
      [] op = "between" -> "BETWEEN"
      [] OTHER -> op

\* a validate() that knows only the predefined constants
Mut_validate(o) ==
    IF o.variant = "Known"
       /\ o.op \in {">", "<", "=", "!=", ">=", "<=", "LIKE", "ILIKE", "IN", "NOT IN",
                    "IS NULL", "IS NOT NULL", "EXISTS", "NOT EXISTS"}
    THEN Ok(<<>>)
    ELSE Err(invalid_query(<<"Unknown operator '", o.op, "'.">>))

validate(o) ==
    IF o.variant = "Known" THEN Ok(<<>>)
    ELSE Err(invalid_query(<<"Unknown operator '", o.op, "'. Use Operator::",
                             SuggestedConstant(o.op),
                             " constants or Operator::custom(\"", o.op,
                             "\") for custom operators.">>))

str_into_operator(s) ==
    CASE s = ">" -> Operator_GT
      [] s = "<" -> Operator_LT
      [] s = "=" -> Operator_EQ
      [] s = "!=" -> Operator_NEQ
      [] s = ">=" -> Operator_GTE
      [] s = "<=" -> Operator_LTE
      [] s \in {"LIKE", "like"} -> Operator_LIKE
      [] s \in {"ILIKE", "ilike"} -> Operator_ILIKE
      [] s \in {"IN", "in"} -> Operator_IN
      [] s \in {"NOT IN", "not in"} -> Operator_NOT_IN
      [] s \in {"IS NULL", "is null"} -> Operator_IS_NULL
      [] s \in {"IS NOT NULL", "is not null"} -> Operator_IS_NOT_NULL
      [] s \in {"EXISTS", "exists"} -> Operator_EXISTS
      [] s \in {"NOT EXISTS", "not exists"} -> Operator_NOT_EXISTS
      [] OTHER -> Unknown(s)

(***************************************************************************)
(* IntoCondition (common.rs).  A caller's condition argument is one of     *)
(*   [shape |-> "cv",  column, value]         the (&str, T) tuple          *)
(*   [shape |-> "cov", column, op, value]     (&str, Operator, T)          *)
(*   [shape |-> "csv", column, op_str, value] (&str, &str, T)              *)
(***************************************************************************)
\* an into_condition that keeps a string operator as it was written
Mut_into_condition(c) ==
    CASE c.shape = "cv" ->
            [column |-> c.column, operator |-> Operator_EQ, value |-> c.value]
      [] c.shape = "cov" ->
            [column |-> c.column, operator |-> c.op, value |-> c.value]
      [] c.shape = "csv" ->
            [column |-> c.column, operator |-> Unknown(c.op_str), value |-> c.value]

into_condition(c) ==
    CASE c.shape = "cv" ->
            [column |-> c.column, operator |-> Operator_EQ, value |-> c.value]
      [] c.shape = "cov" ->
            [column |-> c.column, operator |-> c.op, value |-> c.value]
      [] c.shape = "csv" ->
            [column |-> c.column, operator |-> str_into_operator(c.op_str),
             value |-> c.value]

WhereCondition(column, operator, value, connector) ==
    [column |-> column, operator |-> operator, value |-> value,
     connector |-> connector]

HavingCondition(column_or_function, operator, value, connector) ==
    [column_or_function |-> column_or_function, operator |-> operator,
     value |-> value, connector |-> connector]

JoinCondition(left_column, operator, right_column, connector) ==
    [left_column |-> left_column, operator |-> operator,
     right_column |-> right_column, connector |-> connector]

JoinClause(join_type, table, on_conditions) ==
    [join_type |-> join_type, table |-> table, on_conditions |-> on_conditions]

OrderByClause(column, direction) == [column |-> column, direction |-> direction]

GroupByClause(columns) == [columns |-> columns]

JoinType_to_string(t) ==
    CASE t = "Inner" -> "INNER"
      [] t = "Left" -> "LEFT"
      [] t = "Right" -> "RIGHT"
      [] t = "Full" -> "FULL OUTER"
      [] t = "Cross" -> "CROSS"

SortDirection_to_string(d) ==
    CASE d = "Asc" -> "ASC"
      [] d = "Desc" -> "DESC"

AggregateFunction_to_string(f) ==
    CASE f = "Count" -> "COUNT"
      [] f = "CountDistinct" -> "COUNT(DISTINCT"
      [] f = "Sum" -> "SUM"
      [] f = "Avg" -> "AVG"
      [] f = "Min" -> "MIN"
      [] f = "Max" -> "MAX"

\* IntoColumns: &str and Vec<&str>
into_columns(c) ==
    CASE c.shape = "str" -> <<c.s>>
      [] c.shape = "vec" -> c.v

(***************************************************************************)
(* ColumnSelector and Subquery (select.rs).                                *)
(***************************************************************************)
Column(name) == [variant |-> "Column", name |-> name]
Aggregate(function, column, alias) ==
    [variant |-> "Aggregate", function |-> function, column |-> column,
     alias |-> alias]
CountAll(alias) == [variant |-> "CountAll", alias |-> alias]
SubqueryColumn(subquery, alias) ==
    [variant |-> "SubqueryColumn", subquery |-> subquery, alias |-> alias]

Subquery_new(query) == [query |-> query]

\* an as_alias that keeps an alias already set
Mut_as_alias(self, alias) ==
    IF self.variant = "Column" THEN self
    ELSE IF self.alias.some THEN self
    ELSE [self EXCEPT !.alias = Some(alias)]

as_alias(self, alias) ==
    CASE self.variant = "Column" -> self
      [] self.variant = "Aggregate" -> [self EXCEPT !.alias = Some(alias)]
      [] self.variant = "CountAll" -> [self EXCEPT !.alias = Some(alias)]
      [] self.variant = "SubqueryColumn" -> [self EXCEPT !.alias = Some(alias)]

SubqueryCondition(column, operator, subquery, connector) ==
    [column |-> column, operator |-> operator, subquery |-> subquery,
     connector |-> connector]

\* IntoColumnSelectors: &str and Vec<ColumnSelector>
into_column_selectors(c) ==
    CASE c.shape = "str" -> <<Column(c.s)>>
      [] c.shape = "selectors" -> c.v

(***************************************************************************)
(* SelectBuilderInitial (select.rs).  The Rust type of a builder value is  *)
(* kept in the fields kind and state.                                      *)
(***************************************************************************)
SelectBuilderInitial_new(table) ==
    [kind |-> "select", state |-> "Initial",
     table_name |-> table,
     where_conditions |-> <<>>,
     subquery_conditions |-> <<>>,
     join_clauses |-> <<>>,
     order_by_clauses |-> <<>>,
     group_by_clause |-> None,
     having_conditions |-> <<>>,
     distinct |-> FALSE,
     limit_value |-> None,
     offset_value |-> None,
     parameters |-> <<>>]

from(name) == SelectBuilderInitial_new(name)

\* a select that starts the complete builder with no parameters
Mut_SelectBuilderInitial_select(self, columns) ==
    [kind |-> "select", state |-> "Complete",
     table_name |-> self.table_name,
     selected_columns |-> into_column_selectors(columns),
     where_conditions |-> self.where_conditions,
     subquery_conditions |-> self.subquery_conditions,
     join_clauses |-> self.join_clauses,
     order_by_clauses |-> self.order_by_clauses,
     group_by_clause |-> self.group_by_clause,
     having_conditions |-> self.having_conditions,
     distinct |-> self.distinct,
     limit_value |-> self.limit_value,
     offset_value |-> self.offset_value,
     parameters |-> <<>>]

SelectBuilderInitial_select(self, columns) ==
    [kind |-> "select", state |-> "Complete",
     table_name |-> self.table_name,
     selected_columns |-> into_column_selectors(columns),
     where_conditions |-> self.where_conditions,
     subquery_conditions |-> self.subquery_conditions,
     join_clauses |-> self.join_clauses,
     order_by_clauses |-> self.order_by_clauses,
     group_by_clause |-> self.group_by_clause,
     having_conditions |-> self.having_conditions,
     distinct |-> self.distinct,
     limit_value |-> self.limit_value,
     offset_value |-> self.offset_value,
     parameters |-> self.parameters]

\* select_all that starts the complete builder without the subquery
\* conditions gathered before it
Mut_SelectBuilderInitial_select_all(self) ==
    [kind |-> "select", state |-> "Complete",
     table_name |-> self.table_name,
     selected_columns |-> <<Column("*")>>,
     where_conditions |-> self.where_conditions,
     subquery_conditions |-> <<>>,
     join_clauses |-> self.join_clauses,
     order_by_clauses |-> self.order_by_clauses,
     group_by_clause |-> self.group_by_clause,
     having_conditions |-> self.having_conditions,
     distinct |-> self.distinct,
     limit_value |-> self.limit_value,
     offset_value |-> self.offset_value,
     parameters |-> self.parameters]

SelectBuilderInitial_select_all(self) ==
    [kind |-> "select", state |-> "Complete",
     table_name |-> self.table_name,
     selected_columns |-> <<Column("*")>>,
     where_conditions |-> self.where_conditions,
     subquery_conditions |-> self.subquery_conditions,
     join_clauses |-> self.join_clauses,
     order_by_clauses |-> self.order_by_clauses,
     group_by_clause |-> self.group_by_clause,
     having_conditions |-> self.having_conditions,
     distinct |-> self.distinct,
     limit_value |-> self.limit_value,
     offset_value |-> self.offset_value,
     parameters |-> self.parameters]

SelectBuilderInitial_where_(self, condition) ==
    LET c == into_condition(condition)
        pushed == Append(self.where_conditions,
                         WhereCondition(c.column, c.operator, c.value, "And"))
    IN [self EXCEPT !.where_conditions = pushed,
                    !.parameters = Append(@, pushed[Len(pushed)].value)]

SelectBuilderInitial_or_where(self, condition) ==
    LET c == into_condition(condition)
        pushed == Append(self.where_conditions,
                         WhereCondition(c.column, c.operator, c.value, "Or"))
    IN [self EXCEPT !.where_conditions = pushed,
                    !.parameters = Append(@, pushed[Len(pushed)].value)]

SelectBuilderInitial_and_where(self, condition) ==
    SelectBuilderInitial_where_(self, condition)

SelectBuilderInitial_where_in(self, column, subquery) ==
    [self EXCEPT !.subquery_conditions =
        Append(@, SubqueryCondition(column, Operator_IN,
                                    Subquery_new(subquery), "And"))]

SelectBuilderInitial_where_exists(self, subquery) ==
    [self EXCEPT !.subquery_conditions =
        Append(@, SubqueryCondition("", Operator_EXISTS,
                                    Subquery_new(subquery), "And"))]

SelectBuilderInitial_where_not_in(self, column, subquery) ==
    [self EXCEPT !.subquery_conditions =
        Append(@, SubqueryCondition(column, Operator_NOT_IN,
                                    Subquery_new(subquery), "And"))]

SelectBuilderInitial_where_not_exists(self, subquery) ==
    [self EXCEPT !.subquery_conditions =
        Append(@, SubqueryCondition("", Operator_NOT_EXISTS,
                                    Subquery_new(subquery), "And"))]

SelectBuilderInitial_inner_join(self, table, left_column, right_column) ==
    [self EXCEPT !.join_clauses =
        Append(@, JoinClause("Inner", table,
            <<JoinCondition(left_column, Operator_EQ, right_column, "And")>>))]

SelectBuilderInitial_left_join(self, table, left_column, right_column) ==
    [self EXCEPT !.join_clauses =
        Append(@, JoinClause("Left", table,
            <<JoinCondition(left_column, Operator_EQ, right_column, "And")>>))]

SelectBuilderInitial_right_join(self, table, left_column, right_column) ==
    [self EXCEPT !.join_clauses =
        Append(@, JoinClause("Right", table,
            <<JoinCondition(left_column, Operator_EQ, right_column, "And")>>))]

SelectBuilderInitial_full_outer_join(self, table, left_column, right_column) ==
    [self EXCEPT !.join_clauses =
        Append(@, JoinClause("Full", table,
            <<JoinCondition(left_column, Operator_EQ, right_column, "And")>>))]

SelectBuilderInitial_cross_join(self, table) ==
    [self EXCEPT !.join_clauses = Append(@, JoinClause("Cross", table, <<>>))]

\* operator is an Operator value (IntoOperator for Operator is the identity)
\* or a string converted by str_into_operator: see JoinOperators.
SelectBuilderInitial_join(self, join_type, table, left_col, operator, right_col) ==
    [self EXCEPT !.join_clauses =
        Append(@, JoinClause(join_type, table,
            <<JoinCondition(left_col, operator, right_col, "And")>>))]

SelectBuilderInitial_group_by(self, columns) ==
    [self EXCEPT !.group_by_clause = Some(GroupByClause(into_columns(columns)))]

SelectBuilderInitial_having(self, condition) ==
    LET c == into_condition(condition)
    IN [self EXCEPT !.having_conditions =
                        Append(@, HavingCondition(c.column, c.operator, c.value, "And")),
                    !.parameters = Append(@, c.value)]

SelectBuilderInitial_and_having(self, condition) ==
    LET c == into_condition(condition)
    IN [self EXCEPT !.having_conditions =
                        Append(@, HavingCondition(c.column, c.operator, c.value, "And")),
                    !.parameters = Append(@, c.value)]

SelectBuilderInitial_or_having(self, condition) ==
    LET c == into_condition(condition)
    IN [self EXCEPT !.having_conditions =
                        Append(@, HavingCondition(c.column, c.operator, c.value, "Or")),
                    !.parameters = Append(@, c.value)]

SelectBuilderInitial_order_by(self, column, direction) ==
    [self EXCEPT !.order_by_clauses = Append(@, OrderByClause(column, direction))]

SelectBuilderInitial_order_by_asc(self, column) ==
    [self EXCEPT !.order_by_clauses = Append(@, OrderByClause(column, "Asc"))]

SelectBuilderInitial_order_by_desc(self, column) ==
    [self EXCEPT !.order_by_clauses = Append(@, OrderByClause(column, "Desc"))]

SelectBuilderInitial_limit(self, count) ==
    [self EXCEPT !.limit_value = Some(count)]

SelectBuilderInitial_offset(self, offset) ==
    [self EXCEPT !.offset_value = Some(offset)]

(***************************************************************************)
(* SelectBuilderComplete (select.rs).                                      *)
(***************************************************************************)
SelectBuilderComplete_where_(self, condition) ==
    LET c == into_condition(condition)
        pushed == Append(self.where_conditions,
                         WhereCondition(c.column, c.operator, c.value, "And"))
    IN [self EXCEPT !.where_conditions = pushed,
                    !.parameters = Append(@, pushed[Len(pushed)].value)]

\* or_where inserting its condition at the front of the list
Mut_SelectBuilderComplete_or_where(self, condition) ==
    LET c == into_condition(condition)
    IN [self EXCEPT !.where_conditions =
                        <<WhereCondition(c.column, c.operator, c.value, "Or")>> \o @,
                    !.parameters = Append(@, c.value)]

SelectBuilderComplete_or_where(self, condition) ==
    LET c == into_condition(condition)
        pushed == Append(self.where_conditions,
                         WhereCondition(c.column, c.operator, c.value, "Or"))
    IN [self EXCEPT !.where_conditions = pushed,
                    !.parameters = Append(@, pushed[Len(pushed)].value)]

SelectBuilderComplete_and_where(self, condition) ==
    SelectBuilderComplete_where_(self, condition)

SelectBuilderComplete_order_by(self, column, direction) ==
    [self EXCEPT !.order_by_clauses = Append(@, OrderByClause(column, direction))]

SelectBuilderComplete_order_by_asc(self, column) ==
    SelectBuilderComplete_order_by(self, column, "Asc")

SelectBuilderComplete_order_by_desc(self, column) ==
    SelectBuilderComplete_order_by(self, column, "Desc")

SelectBuilderComplete_limit(self, count) ==
    [self EXCEPT !.limit_value = Some(count)]

SelectBuilderComplete_offset(self, offset) ==
    [self EXCEPT !.offset_value = Some(offset)]

SelectBuilderComplete_distinct(self) ==
    [self EXCEPT !.distinct = TRUE]

\* where_in copying the nested builder's values into the parent's parameters
Mut_SelectBuilderComplete_where_in(self, column, subquery) ==
    [self EXCEPT !.subquery_conditions =
                     Append(@, SubqueryCondition(column, Operator_IN,
                                                 Subquery_new(subquery), "And")),
                 !.parameters = @ \o subquery.parameters]

SelectBuilderComplete_where_in(self, column, subquery) ==
    [self EXCEPT !.subquery_conditions =
        Append(@, SubqueryCondition(column, Operator_IN,
                                    Subquery_new(subquery), "And"))]

SelectBuilderComplete_where_exists(self, subquery) ==
    [self EXCEPT !.subquery_conditions =
        Append(@, SubqueryCondition("", Operator_EXISTS,
                                    Subquery_new(subquery), "And"))]

SelectBuilderComplete_where_not_in(self, column, subquery) ==
    [self EXCEPT !.subquery_conditions =
        Append(@, SubqueryCondition(column, Operator_NOT_IN,
                                    Subquery_new(subquery), "And"))]

SelectBuilderComplete_where_not_exists(self, subquery) ==
    [self EXCEPT !.subquery_conditions =
        Append(@, SubqueryCondition("", Operator_NOT_EXISTS,
                                    Subquery_new(subquery), "And"))]

SelectBuilderComplete_inner_join(self, table, left_column, right_column) ==
    [self EXCEPT !.join_clauses =
        Append(@, JoinClause("Inner", table,
            <<JoinCondition(left_column, Operator_EQ, right_column, "And")>>))]

SelectBuilderComplete_left_join(self, table, left_column, right_column) ==
    [self EXCEPT !.join_clauses =
        Append(@, JoinClause("Left", table,
            <<JoinCondition(left_column, Operator_EQ, right_column, "And")>>))]

SelectBuilderComplete_right_join(self, table, left_column, right_column) ==
    [self EXCEPT !.join_clauses =
        Append(@, JoinClause("Right", table,
            <<JoinCondition(left_column, Operator_EQ, right_column, "And")>>))]

SelectBuilderComplete_full_outer_join(self, table, left_column, right_column) ==
    [self EXCEPT !.join_clauses =
        Append(@, JoinClause("Full", table,
            <<JoinCondition(left_column, Operator_EQ, right_column, "And")>>))]

SelectBuilderComplete_cross_join(self, table) ==
    [self EXCEPT !.join_clauses = Append(@, JoinClause("Cross", table, <<>>))]

SelectBuilderComplete_join(self, join_type, table, left_col, operator, right_col) ==
    [self EXCEPT !.join_clauses =
        Append(@, JoinClause(join_type, table,
            <<JoinCondition(left_col, operator, right_col, "And")>>))]

SelectBuilderComplete_group_by(self, columns) ==
    [self EXCEPT !.group_by_clause = Some(GroupByClause(into_columns(columns)))]

SelectBuilderComplete_having(self, condition) ==
    LET c == into_condition(condition)
    IN [self EXCEPT !.having_conditions =
                        Append(@, HavingCondition(c.column, c.operator, c.value, "And")),
                    !.parameters = Append(@, c.value)]

SelectBuilderComplete_and_having(self, condition) ==
    LET c == into_condition(condition)
    IN [self EXCEPT !.having_conditions =
                        Append(@, HavingCondition(c.column, c.operator, c.value, "And")),
                    !.parameters = Append(@, c.value)]

SelectBuilderComplete_or_having(self, condition) ==
    LET c == into_condition(condition)
    IN [self EXCEPT !.having_conditions =
                        Append(@, HavingCondition(c.column, c.operator, c.value, "Or")),
                    !.parameters = Append(@, c.value)]

(***************************************************************************)
(* impl QueryBuilder for SelectBuilderInitial / SelectBuilderComplete.     *)
(* to_sql returns Ok(pieces) or Err(error).                                *)
(***************************************************************************)
RECURSIVE SelectBuilderComplete_to_sql(_)
RECURSIVE Subquery_to_sql(_)
RECURSIVE SelectColumnsSql(_)
RECURSIVE WhereClauseSql(_)

\* the two validation loops at the head of to_sql
ValidateOperators(self) ==
    FirstErr(Map(LAMBDA c : validate(c.operator), self.where_conditions)
             \o Map(LAMBDA c : validate(c.operator), self.subquery_conditions))

WithAlias(pieces, alias) ==
    IF alias.some THEN pieces \o <<" AS ", alias.v>> ELSE pieces

\* one entry of column_parts
ColumnPartSql(col) ==
    CASE col.variant = "Column" -> Ok(<<col.name>>)
      [] col.variant = "Aggregate" ->
            LET f == AggregateFunction_to_string(col.function)
                func_sql == IF col.function = "CountDistinct"
                            THEN f \o "(" \o col.column \o "))"
                            ELSE f \o "(" \o col.column \o ")"
            IN Ok(WithAlias(<<func_sql>>, col.alias))
      [] col.variant = "CountAll" -> Ok(WithAlias(<<"COUNT(*)">>, col.alias))
      [] col.variant = "SubqueryColumn" ->
            LET subquery_sql == Subquery_to_sql(col.subquery)
            IN IF subquery_sql.ok
               THEN Ok(WithAlias(subquery_sql.v, col.alias))
               ELSE subquery_sql

SelectColumnsSql(self) ==
    IF self.selected_columns = <<>> THEN Ok(<<"*">>)
    ELSE LET parts == [i \in 1..Len(self.selected_columns) |->
                          ColumnPartSql(self.selected_columns[i])]
             bad == FirstErr(parts)
         IN IF ~bad.ok THEN bad
            ELSE Ok(JoinPieces([i \in 1..Len(parts) |-> parts[i].v], ", "))

ConnectorSql(connector) ==
    CASE connector = "And" -> " AND "
      [] connector = "Or" -> " OR "

JoinOnSql(on_conditions) ==
    Flatten([i \in 1..Len(on_conditions) |->
        (IF i > 1 THEN <<ConnectorSql(on_conditions[i].connector)>> ELSE <<>>)
        \o <<on_conditions[i].left_column, " ",
             as_str(on_conditions[i].operator), " ",
             on_conditions[i].right_column>>])

JoinClausesSql(self) ==
    Flatten([i \in 1..Len(self.join_clauses) |->
        LET join == self.join_clauses[i]
        IN <<" ", JoinType_to_string(join.join_type), " JOIN ", join.table>>
           \o (IF join.on_conditions # <<>>
               THEN <<" ON ">> \o JoinOnSql(join.on_conditions)
               ELSE <<>>)])

\* the WHERE items with a space pushed after every subquery condition's
\* column, the empty column of EXISTS included
Mut_WhereClauseItems(self) ==
    [i \in 1..Len(self.where_conditions) |->
        LET condition == self.where_conditions[i]
        IN Ok((IF i > 1 THEN <<ConnectorSql(condition.connector)>> ELSE <<>>)
              \o <<condition.column, " ", as_str(condition.operator), " ", "?">>)]
    \o
    [j \in 1..Len(self.subquery_conditions) |->
        LET condition == self.subquery_conditions[j]
            conditions_added == Len(self.where_conditions) + (j - 1)
            subquery_sql == Subquery_to_sql(condition.subquery)
        IN IF ~subquery_sql.ok THEN subquery_sql
           ELSE Ok((IF conditions_added > 0
                    THEN <<ConnectorSql(condition.connector)>> ELSE <<>>)
                   \o <<condition.column, " ", as_str(condition.operator), " ">>
                   \o subquery_sql.v)]

\* the items of the WHERE clause in emission order: the regular conditions,
\* then the subquery conditions; conditions_added counts the items before.
WhereClauseItems(self) ==
    [i \in 1..Len(self.where_conditions) |->
        LET condition == self.where_conditions[i]
        IN Ok((IF i > 1 THEN <<ConnectorSql(condition.connector)>> ELSE <<>>)
              \o <<condition.column, " ", as_str(condition.operator), " ", "?">>)]
    \o
    [j \in 1..Len(self.subquery_conditions) |->
        LET condition == self.subquery_conditions[j]
            conditions_added == Len(self.where_conditions) + (j - 1)
            subquery_sql == Subquery_to_sql(condition.subquery)
        IN IF ~subquery_sql.ok THEN subquery_sql
           ELSE Ok((IF conditions_added > 0
                    THEN <<ConnectorSql(condition.connector)>> ELSE <<>>)
                   \o <<condition.column>>
                   \o (IF condition.column # "" THEN <<" ">> ELSE <<>>)
                   \o <<as_str(condition.operator), " ">>
                   \o subquery_sql.v)]

WhereClauseSql(self) ==
    IF self.where_conditions # <<>> \/ self.subquery_conditions # <<>>
    THEN LET items == WhereClauseItems(self)
             bad == FirstErr(items)
         IN IF ~bad.ok THEN bad
            ELSE Ok(<<" WHERE ">> \o Flatten([i \in 1..Len(items) |-> items[i].v]))
    ELSE Ok(<<>>)

HavingSql(self) ==
    IF self.having_conditions # <<>>
    THEN <<" HAVING ">> \o
         Flatten([i \in 1..Len(self.having_conditions) |->
            LET condition == self.having_conditions[i]
            IN (IF i > 1 THEN <<ConnectorSql(condition.connector)>> ELSE <<>>)
               \o <<condition.column_or_function, " ",
                    as_str(condition.operator), " ", "?">>])
    ELSE <<>>

\* HAVING printed on its own, whether or not a GROUP BY was set
Mut_GroupBySql(self) ==
    (IF self.group_by_clause.some
     THEN <<" GROUP BY ">>
          \o JoinPieces([i \in 1..Len(self.group_by_clause.v.columns) |->
                             <<self.group_by_clause.v.columns[i]>>], ", ")
     ELSE <<>>)
    \o HavingSql(self)

GroupBySql(self) ==
    IF self.group_by_clause.some
    THEN <<" GROUP BY ">>
         \o JoinPieces([i \in 1..Len(self.group_by_clause.v.columns) |->
                            <<self.group_by_clause.v.columns[i]>>], ", ")
         \o HavingSql(self)
    ELSE <<>>

OrderBySql(self) ==
    IF self.order_by_clauses # <<>>
    THEN <<" ORDER BY ">>
         \o JoinPieces([i \in 1..Len(self.order_by_clauses) |->
                <<self.order_by_clauses[i].column \o " " \o
                  SortDirection_to_string(self.order_by_clauses[i].direction)>>],
              ", ")
    ELSE <<>>

LimitSql(self) ==
    IF self.limit_value.some THEN <<" LIMIT ", ToString(self.limit_value.v)>>
    ELSE <<>>

OffsetSql(self) ==
    IF self.offset_value.some THEN <<" OFFSET ", ToString(self.offset_value.v)>>
    ELSE <<>>

\* a renderer that prints the clauses accumulated so far with SELECT *
Mut_SelectBuilderInitial_to_sql(self) ==
    SelectBuilderComplete_to_sql(
        [kind |-> "select", state |-> "Complete",
         table_name |-> self.table_name,
         selected_columns |-> <<>>,
         where_conditions |-> self.where_conditions,
         subquery_conditions |-> self.subquery_conditions,
         join_clauses |-> self.join_clauses,
         order_by_clauses |-> self.order_by_clauses,
         group_by_clause |-> self.group_by_clause,
         having_conditions |-> self.having_conditions,
         distinct |-> self.distinct,
         limit_value |-> self.limit_value,
         offset_value |-> self.offset_value,
         parameters |-> self.parameters])

SelectBuilderInitial_to_sql(self) ==
    Err(invalid_query(<<"SELECT requires columns to be specified with .select()">>))

SelectBuilderInitial_parameters(self) == <<>>

SelectBuilderComplete_to_sql(self) ==
    LET valid == ValidateOperators(self)
        columns == SelectColumnsSql(self)
        where == WhereClauseSql(self)
    IN IF ~valid.ok THEN valid
       ELSE IF ~columns.ok THEN columns
       ELSE IF ~where.ok THEN where
       ELSE Ok(<<"SELECT ">>
               \o (IF self.distinct THEN <<"DISTINCT ">> ELSE <<>>)
               \o columns.v
               \o <<" FROM ", self.table_name>>
               \o JoinClausesSql(self)
               \o where.v
               \o GroupBySql(self)
               \o OrderBySql(self)
               \o LimitSql(self)
               \o OffsetSql(self))

SelectBuilderComplete_parameters(self) == self.parameters

Subquery_to_sql(self) ==
    LET inner_sql == SelectBuilderComplete_to_sql(self.query)
    IN IF inner_sql.ok THEN Ok(<<"(">> \o inner_sql.v \o <<")">>) ELSE inner_sql

Subquery_parameters(self) == SelectBuilderComplete_parameters(self.query)

(***************************************************************************)
(* HashMap<String, Value> arguments: a map is a function from its keys to  *)
(* values; the order in which one iteration visits the keys is not fixed   *)
(* by the program, so every conversion takes the order the iteration took. *)
(***************************************************************************)
IterationOrders(map) ==
    {order \in [1..Cardinality(DOMAIN map) -> DOMAIN map] :
        \A i, j \in DOMAIN order : i # j => order[i] # order[j]}

\* a conversion that pairs every key with the value of the key visited first
Mut_into_update_data(map, order) ==
    [i \in 1..Len(order) |-> <<order[i], map[order[1]]>>]

\* impl IntoUpdateData for HashMap: self.into_iter().collect()
into_update_data(map, order) ==
    [i \in 1..Len(order) |-> <<order[i], map[order[i]]>>]

\* impl IntoInsertData for HashMap: keys().cloned().collect(), then self[k]
into_insert_data(map, order) ==
    LET columns == [i \in 1..Len(order) |-> order[i]]
        values == [i \in 1..Len(columns) |-> map[columns[i]]]
    IN <<columns, values>>

(***************************************************************************)
(* UPDATE builders (update.rs).                                            *)
(***************************************************************************)
UpdateBuilderInitial_new(table) ==
    [kind |-> "update", state |-> "Initial", table_name |-> table]

update(name) == UpdateBuilderInitial_new(name)

UpdateBuilderInitial_set(self, data, order) ==
    LET updates == into_update_data(data, order)
        set_parameters == [i \in 1..Len(updates) |-> updates[i][2]]
    IN [kind |-> "update", state |-> "WithSet",
        table_name |-> self.table_name,
        set_clauses |-> updates,
        set_parameters |-> set_parameters]

\* where_ putting its value in front of the SET values
Mut_UpdateBuilderWithSet_where_(self, condition) ==
    LET c == into_condition(condition)
        where_condition == WhereCondition(c.column, c.operator, c.value, "And")
        all_parameters == <<c.value>> \o self.set_parameters
    IN [kind |-> "update", state |-> "Complete",
        table_name |-> self.table_name,
        set_clauses |-> self.set_clauses,
        where_conditions |-> <<where_condition>>,
        where_parameters |-> <<c.value>>,
        all_parameters |-> all_parameters]

UpdateBuilderWithSet_where_(self, condition) ==
    LET c == into_condition(condition)
        where_condition == WhereCondition(c.column, c.operator, c.value, "And")
        all_parameters == Append(self.set_parameters, c.value)
    IN [kind |-> "update", state |-> "Complete",
        table_name |-> self.table_name,
        set_clauses |-> self.set_clauses,
        where_conditions |-> <<where_condition>>,
        where_parameters |-> <<c.value>>,
        all_parameters |-> all_parameters]

UpdateBuilderWithSet_and_where(self, condition) ==
    UpdateBuilderWithSet_where_(self, condition)

UpdateBuilderComplete_and_where(self, condition) ==
    LET c == into_condition(condition)
    IN [self EXCEPT !.where_conditions =
                        Append(@, WhereCondition(c.column, c.operator, c.value, "And")),
                    !.where_parameters = Append(@, c.value),
                    !.all_parameters = Append(@, c.value)]

UpdateBuilderComplete_or_where(self, condition) ==
    LET c == into_condition(condition)
    IN [self EXCEPT !.where_conditions =
                        Append(@, WhereCondition(c.column, c.operator, c.value, "Or")),
                    !.where_parameters = Append(@, c.value),
                    !.all_parameters = Append(@, c.value)]

UpdateBuilderComplete_where_(self, condition) ==
    UpdateBuilderComplete_and_where(self, condition)

\* the WHERE clause of UPDATE and DELETE: same loop in both renderers
PlainWhereSql(where_conditions) ==
    IF where_conditions # <<>>
    THEN <<" WHERE ">> \o
         Flatten([i \in 1..Len(where_conditions) |->
            LET condition == where_conditions[i]
            IN (IF i > 1 THEN <<ConnectorSql(condition.connector)>> ELSE <<>>)
               \o <<condition.column, " ", as_str(condition.operator), " ", "?">>])
    ELSE <<>>

UpdateBuilderInitial_to_sql(self) ==
    Err(invalid_query(<<"UPDATE requires SET clause. Use .set() method.">>))

UpdateBuilderInitial_parameters(self) == <<>>

UpdateBuilderWithSet_to_sql(self) ==
    Err(invalid_query(<<"UPDATE requires WHERE clause for safety. Use .where_() or .and_where() method.">>))

UpdateBuilderWithSet_parameters(self) == self.set_parameters

UpdateBuilderComplete_to_sql(self) ==
    LET valid == FirstErr(Map(LAMBDA c : validate(c.operator), self.where_conditions))
        set_parts == [i \in 1..Len(self.set_clauses) |->
                         <<self.set_clauses[i][1] \o " = ", "?">>]
    IN IF ~valid.ok THEN valid
       ELSE Ok(<<"UPDATE ", self.table_name, " SET ">>
               \o JoinPieces(set_parts, ", ")
               \o PlainWhereSql(self.where_conditions))

UpdateBuilderComplete_parameters(self) == self.all_parameters

(***************************************************************************)
(* DELETE builders (delete.rs).                                            *)
(***************************************************************************)
DeleteBuilderInitial_new(table) ==
    [kind |-> "delete", state |-> "Initial", table_name |-> table]

delete(name) == DeleteBuilderInitial_new(name)

DeleteBuilderInitial_where_(self, condition) ==
    LET c == into_condition(condition)
    IN [kind |-> "delete", state |-> "Complete",
        table_name |-> self.table_name,
        where_conditions |-> <<WhereCondition(c.column, c.operator, c.value, "And")>>,
        parameters |-> <<c.value>>]

DeleteBuilderComplete_where_(self, condition) ==
    LET c == into_condition(condition)
    IN [self EXCEPT !.where_conditions =
                        Append(@, WhereCondition(c.column, c.operator, c.value, "And")),
                    !.parameters = Append(@, c.value)]

DeleteBuilderComplete_or_where(self, condition) ==
    LET c == into_condition(condition)
    IN [self EXCEPT !.where_conditions =
                        Append(@, WhereCondition(c.column, c.operator, c.value, "Or")),
                    !.parameters = Append(@, c.value)]

DeleteBuilderComplete_and_where(self, condition) ==
    DeleteBuilderComplete_where_(self, condition)

\* a renderer that lets the unconditional DELETE through
Mut_DeleteBuilderInitial_to_sql(self) ==
    Ok(<<"DELETE FROM ", self.table_name>>)

DeleteBuilderInitial_to_sql(self) ==
    Err(invalid_query(<<"DELETE requires WHERE condition for safety">>))

DeleteBuilderInitial_parameters(self) == <<>>

DeleteBuilderComplete_to_sql(self) ==
    LET valid == FirstErr(Map(LAMBDA c : validate(c.operator), self.where_conditions))
    IN IF ~valid.ok THEN valid
       ELSE Ok(<<"DELETE FROM ", self.table_name>>
               \o PlainWhereSql(self.where_conditions))

DeleteBuilderComplete_parameters(self) == self.parameters

(***************************************************************************)
(* INSERT builders (insert.rs).                                            *)
(***************************************************************************)
InsertBuilderInitial_new(table) ==
    [kind |-> "insert", state |-> "Initial", table_name |-> table]

insert(name) == InsertBuilderInitial_new(name)

InsertBuilderInitial_values(self, data, order) ==
    LET cv == into_insert_data(data, order)
    IN [kind |-> "insert", state |-> "Complete",
        table_name |-> self.table_name,
        columns |-> cv[1],
        values |-> <<cv[2]>>,
        parameters |-> <<>>]

\* orders[1] is the iteration order of first.clone(), orders[i + 1] the one
\* of the i-th item
InsertBuilderInitial_values_many(self, data, orders) ==
    LET columns == IF data # <<>>
                   THEN into_insert_data(data[1], orders[1])[1]
                   ELSE <<>>
        values_vec == [i \in 1..Len(data) |->
                          into_insert_data(data[i], orders[i + 1])[2]]
    IN [kind |-> "insert", state |-> "Complete",
        table_name |-> self.table_name,
        columns |-> columns,
        values |-> values_vec,
        parameters |-> <<>>]

InsertBuilderInitial_to_sql(self) ==
    Err(invalid_query(<<"INSERT requires values to be specified with .values()">>))

InsertBuilderInitial_parameters(self) == <<>>

\* to_sql checking only that there are rows
Mut_InsertBuilderComplete_to_sql(self) ==
    IF self.values = <<>>
    THEN Err(invalid_query(<<"INSERT requires columns and values">>))
    ELSE LET value_groups ==
                [r \in 1..Len(self.values) |->
                    <<"(">> \o JoinPieces([i \in 1..Len(self.values[r]) |-> <<"?">>], ", ")
                    \o <<")">>]
         IN Ok(<<"INSERT INTO ", self.table_name, " (">>
               \o JoinPieces([i \in 1..Len(self.columns) |-> <<self.columns[i]>>], ", ")
               \o <<")", " VALUES ">>
               \o JoinPieces(value_groups, ", "))

InsertBuilderComplete_to_sql(self) ==
    IF self.columns = <<>> \/ self.values = <<>>
    THEN Err(invalid_query(<<"INSERT requires columns and values">>))
    ELSE LET value_groups ==
                [r \in 1..Len(self.values) |->
                    <<"(">> \o JoinPieces([i \in 1..Len(self.values[r]) |-> <<"?">>], ", ")
                    \o <<")">>]
         IN Ok(<<"INSERT INTO ", self.table_name, " (">>
               \o JoinPieces([i \in 1..Len(self.columns) |-> <<self.columns[i]>>], ", ")
               \o <<")", " VALUES ">>
               \o JoinPieces(value_groups, ", "))

InsertBuilderComplete_parameters(self) == self.parameters

(***************************************************************************)
(* QueryBuilder::to_sql / parameters dispatched on the builder's type.     *)
(***************************************************************************)
to_sql(self) ==
    CASE self.kind = "select" /\ self.state = "Initial" -> SelectBuilderInitial_to_sql(self)
      [] self.kind = "select" /\ self.state = "Complete" -> SelectBuilderComplete_to_sql(self)
      [] self.kind = "insert" /\ self.state = "Initial" -> InsertBuilderInitial_to_sql(self)
      [] self.kind = "insert" /\ self.state = "Complete" -> InsertBuilderComplete_to_sql(self)
      [] self.kind = "update" /\ self.state = "Initial" -> UpdateBuilderInitial_to_sql(self)
      [] self.kind = "update" /\ self.state = "WithSet" -> UpdateBuilderWithSet_to_sql(self)
      [] self.kind = "update" /\ self.state = "Complete" -> UpdateBuilderComplete_to_sql(self)
      [] self.kind = "delete" /\ self.state = "Initial" -> DeleteBuilderInitial_to_sql(self)
      [] self.kind = "delete" /\ self.state = "Complete" -> DeleteBuilderComplete_to_sql(self)

parameters(self) ==
    CASE self.kind = "select" /\ self.state = "Initial" -> SelectBuilderInitial_parameters(self)
      [] self.kind = "select" /\ self.state = "Complete" -> SelectBuilderComplete_parameters(self)
      [] self.kind = "insert" /\ self.state = "Initial" -> InsertBuilderInitial_parameters(self)
      [] self.kind = "insert" /\ self.state = "Complete" -> InsertBuilderComplete_parameters(self)
      [] self.kind = "update" /\ self.state = "Initial" -> UpdateBuilderInitial_parameters(self)
      [] self.kind = "update" /\ self.state = "WithSet" -> UpdateBuilderWithSet_parameters(self)
      [] self.kind = "update" /\ self.state = "Complete" -> UpdateBuilderComplete_parameters(self)
      [] self.kind = "delete" /\ self.state = "Initial" -> DeleteBuilderInitial_parameters(self)
      [] self.kind = "delete" /\ self.state = "Complete" -> DeleteBuilderComplete_parameters(self)

(***************************************************************************)
(* Arguments the caller's chain draws from.                                *)
(***************************************************************************)
Tables == {"users"}
SelectTables == {"customers"}

WhereConditions ==
    {[shape |-> "cv", column |-> "id", value |-> Value_I32(1)],
     [shape |-> "cov", column |-> "id", op |-> Operator_EQ, value |-> Value_I32(1)],
     [shape |-> "csv", column |-> "id", op_str |-> "=", value |-> Value_I32(1)],
     [shape |-> "cov", column |-> "age", op |-> Operator_GT, value |-> Value_I32(18)],
     [shape |-> "csv", column |-> "name", op_str |-> "BAD", value |-> Value_String("x")]}

HavingConditions ==
    {[shape |-> "cov", column |-> "COUNT(*)", op |-> Operator_GT, value |-> Value_I32(5)],
     [shape |-> "csv", column |-> "SUM(total)", op_str |-> "BAD", value |-> Value_I32(7)]}

SubSimple ==
    SelectBuilderComplete_where_(
        SelectBuilderInitial_select(from("orders"), [shape |-> "str", s |-> "customer_id"]),
        [shape |-> "cv", column |-> "status", value |-> Value_String("completed")])

SubNested ==
    SelectBuilderComplete_where_in(
        SelectBuilderInitial_select(from("customers"), [shape |-> "str", s |-> "id"]),
        "id", SubSimple)

SubBad ==
    SelectBuilderInitial_select(
        SelectBuilderInitial_where_(from("items"),
            [shape |-> "csv", column |-> "sku", op_str |-> "BAD", value |-> Value_I32(3)]),
        [shape |-> "str", s |-> "order_id"])

Subqueries == {SubSimple, SubBad}

SelectColumns ==
    {[shape |-> "selectors",
      v |-> <<as_alias(Column("status"), "s"),
              as_alias(as_alias(CountAll(None), "old"), "n")>>],
     [shape |-> "selectors",
      v |-> <<as_alias(Column("name"), "nm"),
              as_alias(SubqueryColumn(Subquery_new(SubSimple), Some("old")), "total")>>]}

JoinArguments ==
    {[join_type |-> "Cross", operator |-> Operator_EQ],
     [join_type |-> "Inner", operator |-> str_into_operator("BAD")]}

GroupByColumns == {[shape |-> "str", s |-> "status"]}

Limits == {10}
Offsets == {5}

UpdateMaps ==
    {<<>>,
     [name |-> Value_String("Jane")],
     [name |-> Value_String("Jane"), age |-> Value_I32(25)]}

InsertMaps ==
    {<<>>,
     [name |-> Value_String("John")],
     [name |-> Value_String("John"), age |-> Value_I32(30)],
     [name |-> Value_String("Jane"), age |-> Value_I32(25)],
     [name |-> Value_String("Jim"), email |-> Value_String("j@x")]}

RECURSIVE SeqsUpTo(_, _)
SeqsUpTo(S, n) ==
    IF n = 0 THEN {<<>>}
    ELSE LET shorter == SeqsUpTo(S, n - 1)
         IN shorter \cup {Append(q, x) : q \in {r \in shorter : Len(r) = n - 1}, x \in S}

(***************************************************************************)
(* The caller's chain.                                                     *)
(***************************************************************************)
Size(self) ==
    IF self.kind = "select"
    THEN Len(self.where_conditions) + Len(self.subquery_conditions)
         + Len(self.join_clauses) + Len(self.order_by_clauses)
         + Len(self.having_conditions)
         + (IF self.limit_value.some THEN 1 ELSE 0)
         + (IF self.offset_value.some THEN 1 ELSE 0)
         + (IF self.distinct THEN 1 ELSE 0)
    ELSE IF self.state = "Complete" /\ self.kind # "insert"
    THEN Len(self.where_conditions)
    ELSE 0

IsA(kind, state) == b.kind = kind /\ b.state = state

CanGrow(kind, state) ==
    /\ IsA(kind, state)
    /\ Size(b) < (IF kind = "select" /\ state = "Initial"
                  THEN MaxInitialClauses ELSE MaxClauses)

\* transaction() and the operator conversions before they are called
NotCalled == [pc |-> "not called"]

\* the chain continues with a call that returns the builder next
Chain(next, wheres, joins, orders) ==
    /\ b' = next
    /\ out' = None
    /\ whereCalls' = whereCalls \o wheres
    /\ joinCalls' = joinCalls \o joins
    /\ orderCalls' = orderCalls \o orders
    /\ mapCall' = mapCall
    /\ UNCHANGED <<txn, conv, cl, ex>>

\* the chain continues with the call that takes the caller's map(s)
ChainMap(next, method, data) ==
    /\ b' = next
    /\ out' = None
    /\ mapCall' = Some([method |-> method, data |-> data])
    /\ UNCHANGED <<whereCalls, joinCalls, orderCalls, txn, conv, cl, ex>>

\* the iteration orders of a sequence of maps, one per map
RECURSIVE OrdersFor(_)
OrdersFor(maps) ==
    IF maps = <<>> THEN {<<>>}
    ELSE {<<order>> \o rest : order \in IterationOrders(Head(maps)),
                              rest \in OrdersFor(Tail(maps))}

\* values_many iterates first.clone() and then every item; the clone of a
\* map holds its keys as the map does and is visited in the same order
ValuesManyOrders(data) ==
    IF data = <<>> THEN {<< <<>> >>}
    ELSE {<<orders[1]>> \o orders : orders \in OrdersFor(data)}

PlainCall(condition, connector) ==
    <<[kind |-> "plain", column |-> condition.column,
       operator |-> as_str(into_condition(condition).operator),
       connector |-> connector]>>

SubqueryCall(column, operator) ==
    <<[kind |-> "subquery", column |-> column, operator |-> as_str(operator),
       connector |-> "And"]>>

JoinCall(join_type, table) == <<[join_type |-> join_type, table |-> table]>>

OrderCall(column, direction) == <<[column |-> column, direction |-> direction]>>

Init ==
    /\ b \in {from(t) : t \in SelectTables} \cup {insert(t) : t \in Tables}
             \cup {update(t) : t \in Tables} \cup {delete(t) : t \in Tables}
    /\ out = None
    /\ whereCalls = <<>>
    /\ joinCalls = <<>>
    /\ orderCalls = <<>>
    /\ mapCall = None
    /\ txn = NotCalled
    /\ conv = NotCalled
    /\ cl = NotCalled
    /\ ex = NotCalled

\* builder.to_sql() and builder.parameters() on the builder built so far
Render ==
    /\ out = None
    /\ out' = Some([sql |-> to_sql(b), parameters |-> parameters(b)])
    /\ UNCHANGED <<b, whereCalls, joinCalls, orderCalls, mapCall, txn, conv, cl, ex>>

Call_SelectBuilderInitial_select ==
    /\ IsA("select", "Initial")
    /\ \E columns \in SelectColumns :
           Chain(SelectBuilderInitial_select(b, columns), <<>>, <<>>, <<>>)

Call_SelectBuilderInitial_select_all ==
    /\ IsA("select", "Initial")
    /\ Chain(SelectBuilderInitial_select_all(b), <<>>, <<>>, <<>>)

Call_SelectBuilderInitial_where_ ==
    /\ CanGrow("select", "Initial")
    /\ \E c \in WhereConditions :
           Chain(SelectBuilderInitial_where_(b, c), PlainCall(c, "And"), <<>>, <<>>)

Call_SelectBuilderComplete_where_ ==
    /\ CanGrow("select", "Complete")
    /\ \E c \in WhereConditions :
           Chain(SelectBuilderComplete_where_(b, c), PlainCall(c, "And"), <<>>, <<>>)

Call_SelectBuilderInitial_or_where ==
    /\ CanGrow("select", "Initial")
    /\ \E c \in WhereConditions :
           Chain(SelectBuilderInitial_or_where(b, c), PlainCall(c, "Or"), <<>>, <<>>)

Call_SelectBuilderComplete_or_where ==
    /\ CanGrow("select", "Complete")
    /\ \E c \in WhereConditions :
           Chain(SelectBuilderComplete_or_where(b, c), PlainCall(c, "Or"), <<>>, <<>>)

Call_SelectBuilderInitial_and_where ==
    /\ CanGrow("select", "Initial")
    /\ \E c \in WhereConditions :
           Chain(SelectBuilderInitial_and_where(b, c), PlainCall(c, "And"), <<>>, <<>>)

Call_SelectBuilderComplete_and_where ==
    /\ CanGrow("select", "Complete")
    /\ \E c \in WhereConditions :
           Chain(SelectBuilderComplete_and_where(b, c), PlainCall(c, "And"), <<>>, <<>>)

Call_SelectBuilderInitial_where_in ==
    /\ CanGrow("select", "Initial")
    /\ \E q \in Subqueries :
           Chain(SelectBuilderInitial_where_in(b, "id", q), SubqueryCall("id", Operator_IN), <<>>, <<>>)

Call_SelectBuilderComplete_where_in ==
    /\ CanGrow("select", "Complete")
    /\ \E q \in Subqueries :
           Chain(SelectBuilderComplete_where_in(b, "id", q), SubqueryCall("id", Operator_IN), <<>>, <<>>)

Call_SelectBuilderInitial_where_exists ==
    /\ CanGrow("select", "Initial")
    /\ \E q \in {SubSimple} :
           Chain(SelectBuilderInitial_where_exists(b, q), SubqueryCall("", Operator_EXISTS), <<>>, <<>>)

Call_SelectBuilderComplete_where_exists ==
    /\ CanGrow("select", "Complete")
    /\ \E q \in {SubSimple} :
           Chain(SelectBuilderComplete_where_exists(b, q), SubqueryCall("", Operator_EXISTS), <<>>, <<>>)

Call_SelectBuilderInitial_where_not_in ==
    /\ CanGrow("select", "Initial")
    /\ \E q \in {SubNested} :
           Chain(SelectBuilderInitial_where_not_in(b, "ref", q), SubqueryCall("ref", Operator_NOT_IN), <<>>, <<>>)

Call_SelectBuilderComplete_where_not_in ==
    /\ CanGrow("select", "Complete")
    /\ \E q \in {SubNested} :
           Chain(SelectBuilderComplete_where_not_in(b, "ref", q), SubqueryCall("ref", Operator_NOT_IN), <<>>, <<>>)

Call_SelectBuilderInitial_where_not_exists ==
    /\ CanGrow("select", "Initial")
    /\ \E q \in {SubSimple} :
           Chain(SelectBuilderInitial_where_not_exists(b, q), SubqueryCall("", Operator_NOT_EXISTS), <<>>, <<>>)

Call_SelectBuilderComplete_where_not_exists ==
    /\ CanGrow("select", "Complete")
    /\ \E q \in {SubSimple} :
           Chain(SelectBuilderComplete_where_not_exists(b, q), SubqueryCall("", Operator_NOT_EXISTS), <<>>, <<>>)

Call_SelectBuilderInitial_inner_join ==
    /\ CanGrow("select", "Initial")
    /\ Chain(SelectBuilderInitial_inner_join(b, "posts", "users.id", "posts.user_id"), <<>>, JoinCall("Inner", "posts"), <<>>)

Call_SelectBuilderComplete_inner_join ==
    /\ CanGrow("select", "Complete")
    /\ Chain(SelectBuilderComplete_inner_join(b, "posts", "users.id", "posts.user_id"), <<>>, JoinCall("Inner", "posts"), <<>>)

Call_SelectBuilderInitial_left_join ==
    /\ CanGrow("select", "Initial")
    /\ Chain(SelectBuilderInitial_left_join(b, "posts", "users.id", "posts.user_id"), <<>>, JoinCall("Left", "posts"), <<>>)

Call_SelectBuilderComplete_left_join ==
    /\ CanGrow("select", "Complete")
    /\ Chain(SelectBuilderComplete_left_join(b, "posts", "users.id", "posts.user_id"), <<>>, JoinCall("Left", "posts"), <<>>)

Call_SelectBuilderInitial_right_join ==
    /\ CanGrow("select", "Initial")
    /\ Chain(SelectBuilderInitial_right_join(b, "posts", "users.id", "posts.user_id"), <<>>, JoinCall("Right", "posts"), <<>>)

Call_SelectBuilderComplete_right_join ==
    /\ CanGrow("select", "Complete")
    /\ Chain(SelectBuilderComplete_right_join(b, "posts", "users.id", "posts.user_id"), <<>>, JoinCall("Right", "posts"), <<>>)

Call_SelectBuilderInitial_full_outer_join ==
    /\ CanGrow("select", "Initial")
    /\ Chain(SelectBuilderInitial_full_outer_join(b, "posts", "users.id", "posts.user_id"), <<>>, JoinCall("Full", "posts"), <<>>)

Call_SelectBuilderComplete_full_outer_join ==
    /\ CanGrow("select", "Complete")
    /\ Chain(SelectBuilderComplete_full_outer_join(b, "posts", "users.id", "posts.user_id"), <<>>, JoinCall("Full", "posts"), <<>>)

Call_SelectBuilderInitial_cross_join ==
    /\ CanGrow("select", "Initial")
    /\ Chain(SelectBuilderInitial_cross_join(b, "roles"), <<>>, JoinCall("Cross", "roles"), <<>>)

Call_SelectBuilderComplete_cross_join ==
    /\ CanGrow("select", "Complete")
    /\ Chain(SelectBuilderComplete_cross_join(b, "roles"), <<>>, JoinCall("Cross", "roles"), <<>>)

Call_SelectBuilderInitial_join ==
    /\ CanGrow("select", "Initial")
    /\ \E a \in JoinArguments :
           Chain(SelectBuilderInitial_join(b, a.join_type, "profiles", "users.id", a.operator, "profiles.user_id"), <<>>, JoinCall(a.join_type, "profiles"), <<>>)

Call_SelectBuilderComplete_join ==
    /\ CanGrow("select", "Complete")
    /\ \E a \in JoinArguments :
           Chain(SelectBuilderComplete_join(b, a.join_type, "profiles", "users.id", a.operator, "profiles.user_id"), <<>>, JoinCall(a.join_type, "profiles"), <<>>)

Call_SelectBuilderInitial_group_by ==
    /\ CanGrow("select", "Initial")
    /\ \E c \in GroupByColumns :
           Chain(SelectBuilderInitial_group_by(b, c), <<>>, <<>>, <<>>)

Call_SelectBuilderComplete_group_by ==
    /\ CanGrow("select", "Complete")
    /\ \E c \in GroupByColumns :
           Chain(SelectBuilderComplete_group_by(b, c), <<>>, <<>>, <<>>)

Call_SelectBuilderInitial_having ==
    /\ CanGrow("select", "Initial")
    /\ \E c \in HavingConditions :
           Chain(SelectBuilderInitial_having(b, c), <<>>, <<>>, <<>>)

Call_SelectBuilderComplete_having ==
    /\ CanGrow("select", "Complete")
    /\ \E c \in HavingConditions :
           Chain(SelectBuilderComplete_having(b, c), <<>>, <<>>, <<>>)

Call_SelectBuilderInitial_and_having ==
    /\ CanGrow("select", "Initial")
    /\ \E c \in HavingConditions :
           Chain(SelectBuilderInitial_and_having(b, c), <<>>, <<>>, <<>>)

Call_SelectBuilderComplete_and_having ==
    /\ CanGrow("select", "Complete")
    /\ \E c \in HavingConditions :
           Chain(SelectBuilderComplete_and_having(b, c), <<>>, <<>>, <<>>)

Call_SelectBuilderInitial_or_having ==
    /\ CanGrow("select", "Initial")
    /\ \E c \in HavingConditions :
           Chain(SelectBuilderInitial_or_having(b, c), <<>>, <<>>, <<>>)

Call_SelectBuilderComplete_or_having ==
    /\ CanGrow("select", "Complete")
    /\ \E c \in HavingConditions :
           Chain(SelectBuilderComplete_or_having(b, c), <<>>, <<>>, <<>>)

Call_SelectBuilderInitial_order_by ==
    /\ CanGrow("select", "Initial")
    /\ \E d \in {"Asc", "Desc"} :
           Chain(SelectBuilderInitial_order_by(b, "name", d), <<>>, <<>>, OrderCall("name", d))

Call_SelectBuilderComplete_order_by ==
    /\ CanGrow("select", "Complete")
    /\ \E d \in {"Asc", "Desc"} :
           Chain(SelectBuilderComplete_order_by(b, "name", d), <<>>, <<>>, OrderCall("name", d))

Call_SelectBuilderInitial_order_by_asc ==
    /\ CanGrow("select", "Initial")
    /\ Chain(SelectBuilderInitial_order_by_asc(b, "name"), <<>>, <<>>, OrderCall("name", "Asc"))

Call_SelectBuilderComplete_order_by_asc ==
    /\ CanGrow("select", "Complete")
    /\ Chain(SelectBuilderComplete_order_by_asc(b, "name"), <<>>, <<>>, OrderCall("name", "Asc"))

Call_SelectBuilderInitial_order_by_desc ==
    /\ CanGrow("select", "Initial")
    /\ Chain(SelectBuilderInitial_order_by_desc(b, "name"), <<>>, <<>>, OrderCall("name", "Desc"))

Call_SelectBuilderComplete_order_by_desc ==
    /\ CanGrow("select", "Complete")
    /\ Chain(SelectBuilderComplete_order_by_desc(b, "name"), <<>>, <<>>, OrderCall("name", "Desc"))

Call_SelectBuilderInitial_limit ==
    /\ CanGrow("select", "Initial")
    /\ \E n \in Limits :
           Chain(SelectBuilderInitial_limit(b, n), <<>>, <<>>, <<>>)

Call_SelectBuilderComplete_limit ==
    /\ CanGrow("select", "Complete")
    /\ \E n \in Limits :
           Chain(SelectBuilderComplete_limit(b, n), <<>>, <<>>, <<>>)

Call_SelectBuilderInitial_offset ==
    /\ CanGrow("select", "Initial")
    /\ \E n \in Offsets :
           Chain(SelectBuilderInitial_offset(b, n), <<>>, <<>>, <<>>)

Call_SelectBuilderComplete_offset ==
    /\ CanGrow("select", "Complete")
    /\ \E n \in Offsets :
           Chain(SelectBuilderComplete_offset(b, n), <<>>, <<>>, <<>>)

Call_SelectBuilderComplete_distinct ==
    /\ CanGrow("select", "Complete")
    /\ Chain(SelectBuilderComplete_distinct(b), <<>>, <<>>, <<>>)

Call_UpdateBuilderInitial_set ==
    /\ IsA("update", "Initial")
    /\ \E data \in UpdateMaps : \E order \in IterationOrders(data) :
           ChainMap(UpdateBuilderInitial_set(b, data, order), "set", data)

Call_UpdateBuilderWithSet_where_ ==
    /\ IsA("update", "WithSet")
    /\ \E c \in WhereConditions :
           Chain(UpdateBuilderWithSet_where_(b, c), PlainCall(c, "And"), <<>>, <<>>)

Call_UpdateBuilderWithSet_and_where ==
    /\ IsA("update", "WithSet")
    /\ \E c \in WhereConditions :
           Chain(UpdateBuilderWithSet_and_where(b, c), PlainCall(c, "And"), <<>>, <<>>)

Call_UpdateBuilderComplete_and_where ==
    /\ CanGrow("update", "Complete")
    /\ \E c \in WhereConditions :
           Chain(UpdateBuilderComplete_and_where(b, c), PlainCall(c, "And"), <<>>, <<>>)

Call_UpdateBuilderComplete_or_where ==
    /\ CanGrow("update", "Complete")
    /\ \E c \in WhereConditions :
           Chain(UpdateBuilderComplete_or_where(b, c), PlainCall(c, "Or"), <<>>, <<>>)

Call_UpdateBuilderComplete_where_ ==
    /\ CanGrow("update", "Complete")
    /\ \E c \in WhereConditions :
           Chain(UpdateBuilderComplete_where_(b, c), PlainCall(c, "And"), <<>>, <<>>)

Call_DeleteBuilderInitial_where_ ==
    /\ IsA("delete", "Initial")
    /\ \E c \in WhereConditions :
           Chain(DeleteBuilderInitial_where_(b, c), PlainCall(c, "And"), <<>>, <<>>)

Call_DeleteBuilderComplete_where_ ==
    /\ CanGrow("delete", "Complete")
    /\ \E c \in WhereConditions :
           Chain(DeleteBuilderComplete_where_(b, c), PlainCall(c, "And"), <<>>, <<>>)

Call_DeleteBuilderComplete_or_where ==
    /\ CanGrow("delete", "Complete")
    /\ \E c \in WhereConditions :
           Chain(DeleteBuilderComplete_or_where(b, c), PlainCall(c, "Or"), <<>>, <<>>)

Call_DeleteBuilderComplete_and_where ==
    /\ CanGrow("delete", "Complete")
    /\ \E c \in WhereConditions :
           Chain(DeleteBuilderComplete_and_where(b, c), PlainCall(c, "And"), <<>>, <<>>)

Call_InsertBuilderInitial_values ==
    /\ IsA("insert", "Initial")
    /\ \E data \in InsertMaps : \E order \in IterationOrders(data) :
           ChainMap(InsertBuilderInitial_values(b, data, order), "values", data)

Call_InsertBuilderInitial_values_many ==
    /\ IsA("insert", "Initial")
    /\ \E data \in SeqsUpTo(InsertMaps, MaxRows) :
       \E orders \in ValuesManyOrders(data) :
           ChainMap(InsertBuilderInitial_values_many(b, data, orders), "values_many", data)

Next ==
    \/ Render
    \/ Call_SelectBuilderInitial_select
    \/ Call_SelectBuilderInitial_select_all
    \/ Call_SelectBuilderInitial_where_
    \/ Call_SelectBuilderComplete_where_
    \/ Call_SelectBuilderInitial_or_where
    \/ Call_SelectBuilderComplete_or_where
    \/ Call_SelectBuilderInitial_and_where
    \/ Call_SelectBuilderComplete_and_where
    \/ Call_SelectBuilderInitial_where_in
    \/ Call_SelectBuilderComplete_where_in
    \/ Call_SelectBuilderInitial_where_exists
    \/ Call_SelectBuilderComplete_where_exists
    \/ Call_SelectBuilderInitial_where_not_in
    \/ Call_SelectBuilderComplete_where_not_in
    \/ Call_SelectBuilderInitial_where_not_exists
    \/ Call_SelectBuilderComplete_where_not_exists
    \/ Call_SelectBuilderInitial_inner_join
    \/ Call_SelectBuilderComplete_inner_join
    \/ Call_SelectBuilderInitial_left_join
    \/ Call_SelectBuilderComplete_left_join
    \/ Call_SelectBuilderInitial_right_join
    \/ Call_SelectBuilderComplete_right_join
    \/ Call_SelectBuilderInitial_full_outer_join
    \/ Call_SelectBuilderComplete_full_outer_join
    \/ Call_SelectBuilderInitial_cross_join
    \/ Call_SelectBuilderComplete_cross_join
    \/ Call_SelectBuilderInitial_join
    \/ Call_SelectBuilderComplete_join
    \/ Call_SelectBuilderInitial_group_by
    \/ Call_SelectBuilderComplete_group_by
    \/ Call_SelectBuilderInitial_having
    \/ Call_SelectBuilderComplete_having
    \/ Call_SelectBuilderInitial_and_having
    \/ Call_SelectBuilderComplete_and_having
    \/ Call_SelectBuilderInitial_or_having
    \/ Call_SelectBuilderComplete_or_having
    \/ Call_SelectBuilderInitial_order_by
    \/ Call_SelectBuilderComplete_order_by
    \/ Call_SelectBuilderInitial_order_by_asc
    \/ Call_SelectBuilderComplete_order_by_asc
    \/ Call_SelectBuilderInitial_order_by_desc
    \/ Call_SelectBuilderComplete_order_by_desc
    \/ Call_SelectBuilderInitial_limit
    \/ Call_SelectBuilderComplete_limit
    \/ Call_SelectBuilderInitial_offset
    \/ Call_SelectBuilderComplete_offset
    \/ Call_SelectBuilderComplete_distinct
    \/ Call_UpdateBuilderInitial_set
    \/ Call_UpdateBuilderWithSet_where_
    \/ Call_UpdateBuilderWithSet_and_where
    \/ Call_UpdateBuilderComplete_and_where
    \/ Call_UpdateBuilderComplete_or_where
    \/ Call_UpdateBuilderComplete_where_
    \/ Call_DeleteBuilderInitial_where_
    \/ Call_DeleteBuilderComplete_where_
    \/ Call_DeleteBuilderComplete_or_where
    \/ Call_DeleteBuilderComplete_and_where
    \/ Call_InsertBuilderInitial_values
    \/ Call_InsertBuilderInitial_values_many

Spec == Init /\ [][Next]_vars

(***************************************************************************)
(* Reading a rendered SQL string back.                                     *)
(***************************************************************************)
Rendered == out.some
RenderedOk == out.some /\ out.v.sql.ok
Sql == out.v.sql.v
Params == out.v.parameters

\* the pieces outside every parenthesised subquery; a subquery is kept as
\* the single piece "(subquery)"
\* the parentheses a run of pieces leaves open
Opened(sql) ==
    Cardinality({i \in 1..Len(sql) : sql[i] = "("})
    - Cardinality({i \in 1..Len(sql) : sql[i] = ")"})

\* read by halves: the right half starts at the depth the left half ends at
RECURSIVE TopLevelFrom(_, _)
TopLevelFrom(sql, depth) ==
    IF sql = <<>> THEN <<>>
    ELSE IF Len(sql) = 1
         THEN (IF depth # 0 \/ sql[1] = ")" THEN <<>>
               ELSE IF sql[1] = "(" THEN <<"(subquery)">>
               ELSE sql)
    ELSE LET half == Len(sql) \div 2
             left == SubSeq(sql, 1, half)
         IN TopLevelFrom(left, depth)
            \o TopLevelFrom(SubSeq(sql, half + 1, Len(sql)), depth + Opened(left))

TopLevel(sql) == TopLevelFrom(sql, 0)

SectionKeywords ==
    {"SELECT ", "DISTINCT ", " FROM ", " JOIN ", " WHERE ", " GROUP BY ",
     " HAVING ", " ORDER BY ", " LIMIT ", " OFFSET ", "UPDATE ", " SET ",
     "DELETE FROM "}

Filter(s, Keep(_)) == SelectSeq(s, Keep)

\* the section keywords of a statement, in the order they are printed
TopKeywords(sql) == Filter(TopLevel(sql), LAMBDA p : p \in SectionKeywords)

\* the top-level pieces after the first keyword kw up to the next keyword
Section(sql, kw) ==
    LET top == TopLevel(sql)
        starts == {i \in 1..Len(top) : top[i] = kw}
    IN IF starts = {} THEN <<>>
       ELSE LET first == CHOOSE i \in starts : \A j \in starts : i <= j
                ends == {i \in (first + 1)..Len(top) : top[i] \in SectionKeywords}
                last == IF ends = {} THEN Len(top)
                        ELSE (CHOOSE i \in ends : \A j \in ends : i <= j) - 1
            IN SubSeq(top, first + 1, last)

ConnectorPieces == {" AND ", " OR "}

\* the AND / OR tokens of a WHERE section, left to right
PrintedConnectors(section) == Filter(section, LAMBDA p : p \in ConnectorPieces)

\* the conditions of a WHERE section, left to right, each as the pieces
\* between two connectors
RECURSIVE SplitItems(_, _)
SplitItems(section, current) ==
    IF section = <<>> THEN (IF current = <<>> THEN <<>> ELSE <<current>>)
    ELSE IF Head(section) \in ConnectorPieces
         THEN <<current>> \o SplitItems(Tail(section), <<>>)
    ELSE SplitItems(Tail(section), Append(current, Head(section)))

\* kind, column and operator of one printed condition
PrintedCondition(item) ==
    [kind |-> IF item[Len(item)] = "?" THEN "plain" ELSE "subquery",
     column |-> item[1],
     operator |-> IF Len(item) = 5 THEN item[3] ELSE item[2]]

PrintedConditions(sql) ==
    LET items == SplitItems(Section(sql, " WHERE "), <<>>)
    IN [i \in 1..Len(items) |-> PrintedCondition(items[i])]

CalledCondition(call) ==
    [kind |-> call.kind, column |-> call.column, operator |-> call.operator]

\* <<join type, table>> of every printed join, left to right
PrintedJoins(sql) ==
    LET top == TopLevel(sql)
        at == Filter([i \in 1..Len(top) |-> i], LAMBDA i : top[i] = " JOIN ")
    IN [k \in 1..Len(at) |-> <<top[at[k] - 1], top[at[k] + 1]>>]

PrintedOrderBy(sql) == Filter(Section(sql, " ORDER BY "), LAMBDA p : p # ", ")

(***************************************************************************)
(* C1.  Whenever to_sql() succeeds on a builder, the number of `?`         *)
(* placeholders in the SQL equals the length of parameters() of the same   *)
(* builder.                                                                *)
(***************************************************************************)
C1_PlaceholdersMatchParameters ==
    RenderedOk => CountPlaceholders(Sql) = Len(Params)

(***************************************************************************)
(* C2.  On a SELECT with GROUP BY whose conditions are where and having    *)
(* calls in any interleaving, parameters() lists the values in the order   *)
(* of their placeholders: the WHERE values, then the HAVING values.        *)
(***************************************************************************)
PlaceholderValues(self) ==
    [i \in 1..Len(self.where_conditions) |-> self.where_conditions[i].value]
    \o (IF self.group_by_clause.some
        THEN [i \in 1..Len(self.having_conditions) |-> self.having_conditions[i].value]
        ELSE <<>>)

\* C2: parameters() is the WHERE values followed by the HAVING values, one
\* per placeholder, in placeholder order.
C2_ParametersInPlaceholderOrder ==
    (RenderedOk /\ IsA("select", "Complete") /\ b.group_by_clause.some
        /\ b.subquery_conditions = <<>>
        /\ \A i \in 1..Len(b.selected_columns) :
              b.selected_columns[i].variant # "SubqueryColumn")
    => (/\ CountPlaceholders(Sql) = Len(PlaceholderValues(b))
        /\ Params = PlaceholderValues(b))

(***************************************************************************)
(* C3.  to_sql() on a builder that is not yet complete (Initial, WithSet)  *)
(* returns the error naming the missing clause, never an SQL string,       *)
(* whatever was accumulated on it.                                         *)
(***************************************************************************)
IncompleteMessage(kind, state) ==
    CASE kind = "select" -> <<"SELECT requires columns to be specified with .select()">>
      [] kind = "insert" -> <<"INSERT requires values to be specified with .values()">>
      [] kind = "update" /\ state = "Initial" ->
            <<"UPDATE requires SET clause. Use .set() method.">>
      [] kind = "update" /\ state = "WithSet" ->
            <<"UPDATE requires WHERE clause for safety. Use .where_() or .and_where() method.">>
      [] kind = "delete" -> <<"DELETE requires WHERE condition for safety">>

C4_UpdateHasSetAndWhere ==
    (RenderedOk /\ b.kind = "update")
    => (/\ Section(Sql, " SET ") # <<>>
        /\ Section(Sql, " WHERE ") # <<>>
        /\ b.set_clauses # <<>>
        /\ b.where_conditions # <<>>)

RECURSIVE TouchesUnknownOperator(_)
TouchesUnknownOperator(self) ==
    \/ \E i \in 1..Len(self.where_conditions) :
          self.where_conditions[i].operator.variant = "Unknown"
    \/ \E i \in 1..Len(self.having_conditions) :
          self.having_conditions[i].operator.variant = "Unknown"
    \/ \E i \in 1..Len(self.join_clauses) :
          \E j \in 1..Len(self.join_clauses[i].on_conditions) :
             self.join_clauses[i].on_conditions[j].operator.variant = "Unknown"
    \/ \E i \in 1..Len(self.subquery_conditions) :
          \/ self.subquery_conditions[i].operator.variant = "Unknown"
          \/ TouchesUnknownOperator(self.subquery_conditions[i].subquery.query)
    \/ \E i \in 1..Len(self.selected_columns) :
          /\ self.selected_columns[i].variant = "SubqueryColumn"
          /\ TouchesUnknownOperator(self.selected_columns[i].subquery.query)

\* C6: a complete SELECT that touches an Unknown operator anywhere does not
\* render.
C6_UnknownOperatorFailsRender ==
    (Rendered /\ IsA("select", "Complete") /\ TouchesUnknownOperator(b))
    => ~out.v.sql.ok

(***************************************************************************)
(* C7.  A condition built with an operator string that matches no known    *)
(* token is accepted by every builder call, and to_sql() on the complete   *)
(* SELECT, UPDATE or DELETE fails with the unknown-operator error naming   *)
(* that token.                                                             *)
(***************************************************************************)
UnknownConditionTokens(self) ==
    {self.where_conditions[i].operator.op : i \in
        {k \in 1..Len(self.where_conditions) :
            self.where_conditions[k].operator.variant = "Unknown"}}
    \cup (IF self.kind = "select"
          THEN {self.having_conditions[i].operator.op : i \in
                  {k \in 1..Len(self.having_conditions) :
                      /\ self.group_by_clause.some
                      /\ self.having_conditions[k].operator.variant = "Unknown"}}
          ELSE {})

\* C7: a complete SELECT, UPDATE or DELETE holding a condition with an
\* unknown token fails to render with the error naming such a token.
C7_UnknownOperatorSurfacesAtRender ==
    (Rendered /\ b.state = "Complete" /\ b.kind \in {"select", "update", "delete"}
        /\ UnknownConditionTokens(b) # {})
    => (/\ ~out.v.sql.ok
        /\ out.v.sql.e.variant = "InvalidQuery"
        /\ out.v.sql.e.message[1] = "Unknown operator '"
        /\ out.v.sql.e.message[2] \in UnknownConditionTokens(b))

(***************************************************************************)
(* C8.  The AND / OR tokens between the conditions of the rendered WHERE   *)
(* clause are the connectors supplied by the condition-adding calls, in    *)
(* call order, the first call's connector not being printed.               *)
(***************************************************************************)
SuppliedConnectors ==
    [i \in 1..Len(whereCalls) |->
        IF whereCalls[i].connector = "And" THEN " AND " ELSE " OR "]

\* C8: the printed connectors are the supplied ones after the first, in
\* call order.
C8_ConnectorsInCallOrder ==
    (RenderedOk /\ whereCalls # <<>>)
    => PrintedConnectors(Section(Sql, " WHERE ")) = Tail(SuppliedConnectors)

(***************************************************************************)
(* C9.  The rendered clauses list their items in call order: the WHERE     *)
(* conditions (plain and subquery conditions together), the joins and the  *)
(* ORDER BY items.                                                         *)
(***************************************************************************)
CalledJoins ==
    [i \in 1..Len(joinCalls) |->
        <<JoinType_to_string(joinCalls[i].join_type), joinCalls[i].table>>]

CalledOrderBy ==
    [i \in 1..Len(orderCalls) |->
        orderCalls[i].column \o " " \o SortDirection_to_string(orderCalls[i].direction)]

SectionsOf(self, having) ==
    <<"SELECT ">>
    \o (IF self.distinct THEN <<"DISTINCT ">> ELSE <<>>)
    \o <<" FROM ">>
    \o [i \in 1..Len(self.join_clauses) |-> " JOIN "]
    \o (IF self.where_conditions # <<>> \/ self.subquery_conditions # <<>>
        THEN <<" WHERE ">> ELSE <<>>)
    \o (IF self.group_by_clause.some THEN <<" GROUP BY ">> ELSE <<>>)
    \o (IF having THEN <<" HAVING ">> ELSE <<>>)
    \o (IF self.order_by_clauses # <<>> THEN <<" ORDER BY ">> ELSE <<>>)
    \o (IF self.limit_value.some THEN <<" LIMIT ">> ELSE <<>>)
    \o (IF self.offset_value.some THEN <<" OFFSET ">> ELSE <<>>)

\* C10: the printed section keywords are, in the fixed order, exactly those
\* for which something was added.
C10_SectionsPresentWhenAdded ==
    (RenderedOk /\ IsA("select", "Complete"))
    => TopKeywords(Sql) = SectionsOf(b, b.having_conditions # <<>>)

\* C10, with HAVING nested in GROUP BY: HAVING is printed exactly when having conditions were
\* added and a GROUP BY was set; every other section exactly when something
\* was added for it.
C10_SectionsInFixedOrder ==
    (RenderedOk /\ IsA("select", "Complete"))
    => TopKeywords(Sql) =
          SectionsOf(b, b.having_conditions # <<>> /\ b.group_by_clause.some)

C10_Witness ==
    /\ RenderedOk /\ IsA("select", "Complete")
    /\ b.having_conditions # <<>> /\ ~b.group_by_clause.some
    /\ b.order_by_clauses # <<>>
    /\ TopKeywords(Sql) = <<"SELECT ", " FROM ", " ORDER BY ">>

(***************************************************************************)
(* C11.  A CROSS join never prints an ON clause, whether it was added with *)
(* cross_join or with the generic join given JoinType::Cross.              *)
(***************************************************************************)
\* the positions of the top-level " JOIN " pieces that follow "CROSS"
CrossJoinsAt(top) ==
    {i \in 2..Len(top) : top[i] = " JOIN " /\ top[i - 1] = "CROSS"}

\* C11: no printed CROSS JOIN is followed by " ON ".
C11_CrossJoinHasNoOn ==
    (RenderedOk /\ b.kind = "select")
    => \A i \in CrossJoinsAt(TopLevel(Sql)) :
          i + 2 <= Len(TopLevel(Sql)) => TopLevel(Sql)[i + 2] # " ON "

(***************************************************************************)
(* C12.  Adding a subquery, as a WHERE condition or as a selected column,  *)
(* leaves the parent's parameters() as they were; the nested values stay   *)
(* with the nested builder, and Subquery::parameters() returns them.       *)
(***************************************************************************)
\* SelectBuilderInitial has no selected_columns field
SubqueryColumnsOf(self) ==
    IF self.state = "Complete"
    THEN Filter(self.selected_columns, LAMBDA c : c.variant = "SubqueryColumn")
    ELSE <<>>

\* the subqueries a SELECT builder holds, conditions first
SubqueriesOf(self) ==
    [i \in 1..Len(self.subquery_conditions) |-> self.subquery_conditions[i].subquery]
    \o [i \in 1..Len(SubqueryColumnsOf(self)) |-> SubqueryColumnsOf(self)[i].subquery]

\* C12: a step that adds a subquery to a SELECT builder adds nothing to the
\* values the builder holds: the result's parameters() is the list the
\* builder held before (select, the one call that adds a subquery column,
\* is also the call that turns Initial, whose parameters() is empty, into
\* Complete); and every subquery held answers parameters() with its nested
\* builder's parameters.
C12_SubqueryKeepsParentParameters ==
    [][(b.kind = "select" /\ b'.kind = "select"
            /\ Len(SubqueriesOf(b')) > Len(SubqueriesOf(b)))
       => (/\ b'.parameters = b.parameters
           /\ b'.state = b.state => parameters(b') = parameters(b)
           /\ b'.state = "Complete" => parameters(b') = b.parameters
           /\ \A i \in 1..Len(SubqueriesOf(b')) :
                 Subquery_parameters(SubqueriesOf(b')[i])
                    = parameters(SubqueriesOf(b')[i].query))]_vars

C12_Witness ==
    /\ IsA("select", "Complete")
    /\ b.where_conditions # <<>>
    /\ b.subquery_conditions # <<>>
    /\ SubqueryColumnsOf(b) # <<>>
    /\ Subquery_parameters(b.subquery_conditions[1].subquery)
          = <<Value_String("completed")>>
    /\ Len(parameters(b)) = Len(b.where_conditions)

(***************************************************************************)
(* C13.  A subquery condition is printed as the column, the operator and   *)
(* the nested builder's own SQL in parentheses, at any nesting depth; for  *)
(* EXISTS and NOT EXISTS there is no column and no space before the        *)
(* operator.                                                               *)
(***************************************************************************)
\* for each piece, the subquery parentheses open before it; read by halves
RECURSIVE DepthsFrom(_, _)
DepthsFrom(sql, depth) ==
    IF sql = <<>> THEN <<>>
    ELSE IF Len(sql) = 1 THEN <<depth>>
    ELSE LET half == Len(sql) \div 2
             left == SubSeq(sql, 1, half)
         IN DepthsFrom(left, depth)
            \o DepthsFrom(SubSeq(sql, half + 1, Len(sql)), depth + Opened(left))

\* the positions of s, in order, that pass the test
Positions(s, Keep(_)) == SelectSeq([i \in 1..Len(s) |-> i], Keep)

\* the pieces of the WHERE clause of a statement, nested pieces included:
\* from its " WHERE " to the next section keyword outside every subquery
WherePieces(sql) ==
    LET depths == DepthsFrom(sql, 0)
        keywords == Positions(sql, LAMBDA i : depths[i] = 0 /\ sql[i] \in SectionKeywords)
        wheres == Positions(keywords, LAMBDA k : sql[keywords[k]] = " WHERE ")
    IN IF wheres = <<>> THEN <<>>
       ELSE LET k == wheres[1]
            IN SubSeq(sql, keywords[k] + 1,
                      IF k < Len(keywords) THEN keywords[k + 1] - 1 ELSE Len(sql))

\* the conditions of a WHERE clause as strings, split at the connectors
\* outside every subquery
SplitTopItems(pieces) ==
    LET depths == DepthsFrom(pieces, 0)
        cuts == <<0>> \o Positions(pieces, LAMBDA i : depths[i] = 0
                                                     /\ pieces[i] \in ConnectorPieces)
                \o <<Len(pieces) + 1>>
    IN [k \in 1..(Len(cuts) - 1) |->
           Concat(SubSeq(pieces, cuts[k] + 1, cuts[k + 1] - 1))]

PrintedWhereItems(sql) ==
    IF WherePieces(sql) = <<>> THEN <<>> ELSE SplitTopItems(WherePieces(sql))

\* C13: in a rendered SELECT, the WHERE items after the plain conditions
\* are the subquery conditions, each printed as its column, operator and
\* parenthesised nested SQL; the same holds inside every nested SELECT.
RECURSIVE SubqueryConditionsPrinted(_, _)
SubqueryConditionsPrinted(self, sql) ==
    LET n == Len(self.where_conditions)
        items == PrintedWhereItems(sql)
    IN /\ Len(items) = n + Len(self.subquery_conditions)
       /\ \A j \in 1..Len(self.subquery_conditions) :
             LET nested == self.subquery_conditions[j].subquery.query
                 nested_sql == SelectBuilderComplete_to_sql(nested)
             IN /\ nested_sql.ok
                /\ items[n + j]
                      = (IF as_str(self.subquery_conditions[j].operator)
                               \in {"EXISTS", "NOT EXISTS"}
                         THEN ""
                         ELSE self.subquery_conditions[j].column \o " ")
                        \o as_str(self.subquery_conditions[j].operator)
                        \o " (" \o Concat(nested_sql.v) \o ")"
                /\ SubqueryConditionsPrinted(nested, nested_sql.v)

C13_SubqueryConditionRendering ==
    (RenderedOk /\ IsA("select", "Complete")) => SubqueryConditionsPrinted(b, Sql)

C13_Witness ==
    /\ RenderedOk /\ IsA("select", "Complete")
    /\ \E i, j \in 1..Len(b.subquery_conditions) :
          /\ as_str(b.subquery_conditions[i].operator) \in {"EXISTS", "NOT EXISTS"}
          /\ b.subquery_conditions[j].subquery.query.subquery_conditions # <<>>

(***************************************************************************)
(* C14.  The chain from("customers").where_in("id", S), where S is         *)
(* from("orders").select("customer_id").where_(("status", "completed")),   *)
(* and its rendering.                                                      *)
(***************************************************************************)
ScenarioD_Initial == SelectBuilderInitial_where_in(from("customers"), "id", SubSimple)

ScenarioD_Complete == SelectBuilderInitial_select_all(ScenarioD_Initial)

ScenarioD_Sql ==
    "SELECT * FROM customers WHERE id IN (SELECT customer_id FROM orders WHERE status = ?)"

PrintedSetColumns(sql) == Filter(Section(sql, " SET "), LAMBDA p : p \notin {"?", ", "})

ScenarioB ==
    UpdateBuilderWithSet_where_(
        UpdateBuilderInitial_set(update("users"), [name |-> Value_String("Jane")],
                                 <<"name">>),
        [shape |-> "cv", column |-> "id", value |-> Value_I32(1)])

\* C15: every rendered UPDATE has one parameter per printed SET column, the
\* value set for that column, then one per WHERE call, in call order; the
\* scenario renders to its SQL with parameters <<"Jane", 1>>.
C15_UpdateParameterOrder ==
    /\ (RenderedOk /\ IsA("update", "Complete"))
       => LET cols == PrintedSetColumns(Sql)
              n == Len(cols)
          IN /\ n = Len(b.set_clauses)
             /\ Len(Params) = n + Len(whereCalls)
             /\ Len(b.where_conditions) = Len(whereCalls)
             /\ \A i \in 1..n :
                   /\ cols[i] = b.set_clauses[i][1] \o " = "
                   /\ Params[i] = b.set_clauses[i][2]
             /\ \A k \in 1..Len(whereCalls) :
                   /\ b.where_conditions[k].column = whereCalls[k].column
                   /\ PrintedConditions(Sql)[k].column = whereCalls[k].column
                   /\ Params[n + k] = b.where_conditions[k].value
    /\ (Rendered /\ b = ScenarioB)
       => (/\ out.v.sql.ok
           /\ Concat(Sql) = "UPDATE users SET name = ? WHERE id = ?"
           /\ Params = <<Value_String("Jane"), Value_I32(1)>>)

C15_Witness ==
    /\ RenderedOk /\ IsA("update", "Complete")
    /\ Len(b.set_clauses) = 2
    /\ Len(whereCalls) = 2
    /\ whereCalls[1].column # whereCalls[2].column

(***************************************************************************)
(* C16.  A complete INSERT with no columns or no rows, built by values()   *)
(* with an empty map or values_many() with an empty list, fails to render. *)
(***************************************************************************)
\* C16: rendering a complete INSERT whose column list or row list is empty
\* returns the error and no SQL.
C16_EmptyInsertFailsRender ==
    (Rendered /\ IsA("insert", "Complete") /\ (b.columns = <<>> \/ b.values = <<>>))
    => (/\ ~out.v.sql.ok
        /\ out.v.sql.e = invalid_query(<<"INSERT requires columns and values">>))

\* values_many(vec![]) rendered
C16_Witness ==
    /\ Rendered /\ IsA("insert", "Complete")
    /\ b.values = <<>>
    /\ ~out.v.sql.ok

(***************************************************************************)
(* C17.  Building the same chain of calls with the same arguments a second *)
(* time, and rendering a builder a second time, give the same SQL and the  *)
(* same parameters, also when a map argument has two or more keys.         *)
(***************************************************************************)
RenderOf(self) == [sql |-> to_sql(self), parameters |-> parameters(self)]

\* the where calls of an UPDATE chain made again on the builder self
RECURSIVE ReplayUpdateWheres(_, _)
ReplayUpdateWheres(self, conditions) ==
    IF conditions = <<>> THEN self
    ELSE LET c == Head(conditions)
             arg == [shape |-> "cov", column |-> c.column, op |-> c.operator,
                     value |-> c.value]
         IN ReplayUpdateWheres(
                IF self.state = "WithSet" THEN UpdateBuilderWithSet_where_(self, arg)
                ELSE IF c.connector = "And" THEN UpdateBuilderComplete_and_where(self, arg)
                ELSE UpdateBuilderComplete_or_where(self, arg),
                Tail(conditions))

\* every builder the chain that built b can build when it is made again:
\* the calls and their arguments are the same, the iteration orders of the
\* map arguments are whatever the second run's maps have
Rebuilds ==
    IF ~mapCall.some THEN {b}
    ELSE CASE mapCall.v.method = "set" ->
                {ReplayUpdateWheres(
                     UpdateBuilderInitial_set(update(b.table_name), mapCall.v.data, order),
                     IF b.state = "Complete" THEN b.where_conditions ELSE <<>>) :
                   order \in IterationOrders(mapCall.v.data)}
           [] mapCall.v.method = "values" ->
                {InsertBuilderInitial_values(insert(b.table_name), mapCall.v.data, order) :
                   order \in IterationOrders(mapCall.v.data)}
           [] mapCall.v.method = "values_many" ->
                {InsertBuilderInitial_values_many(insert(b.table_name),
                                                  mapCall.v.data, orders) :
                   orders \in ValuesManyOrders(mapCall.v.data)}

\* C17: a second rendering of b, and the rendering of every second build of
\* b's chain, return what the first rendering returned.
C17_RenderingIsDeterministic ==
    Rendered => (/\ RenderOf(b) = out.v
                 /\ \A again \in Rebuilds : RenderOf(again) = out.v)

\* every map argument of the chain has at most one key
SingleKeyMaps ==
    mapCall.some =>
        IF mapCall.v.method = "values_many"
        THEN \A i \in 1..Len(mapCall.v.data) : Cardinality(DOMAIN mapCall.v.data[i]) <= 1
        ELSE Cardinality(DOMAIN mapCall.v.data) <= 1

\* the column list of a rendered INSERT and the text after it
InsertColumnsEnd(sql) == CHOOSE i \in 1..Len(sql) : sql[i] = ")" /\ \A j \in 1..(i - 1) : sql[j] # ")"
InsertPrintedColumns(sql) ==
    {sql[i] : i \in {j \in 4..(InsertColumnsEnd(sql) - 1) : sql[j] # ", "}}
InsertValuesPart(sql) == SubSeq(sql, InsertColumnsEnd(sql) + 1, Len(sql))

\* the `col = ` pieces of a rendered UPDATE paired with their parameters
UpdateAssignments(r) ==
    {<<PrintedSetColumns(r.sql.v)[i], r.parameters[i]>> :
        i \in 1..Len(PrintedSetColumns(r.sql.v))}

\* two renderings that differ at most in the order of the columns
SameUpToColumnOrder(r1, r2, kind) ==
    /\ r1.sql.ok = r2.sql.ok
    /\ Len(r1.parameters) = Len(r2.parameters)
    /\ ~r1.sql.ok => r1.sql = r2.sql
    /\ (r1.sql.ok /\ kind = "update") =>
          LET n == Len(PrintedSetColumns(r1.sql.v))
          IN /\ UpdateAssignments(r1) = UpdateAssignments(r2)
             /\ Section(r1.sql.v, " WHERE ") = Section(r2.sql.v, " WHERE ")
             /\ SubSeq(r1.parameters, n + 1, Len(r1.parameters))
                   = SubSeq(r2.parameters, n + 1, Len(r2.parameters))
    /\ (r1.sql.ok /\ kind = "insert") =>
          /\ InsertPrintedColumns(r1.sql.v) = InsertPrintedColumns(r2.sql.v)
          /\ InsertValuesPart(r1.sql.v) = InsertValuesPart(r2.sql.v)
    /\ kind \in {"select", "delete"} => r1 = r2

\* C17, with the map's iteration order left open: a second rendering of b
\* returns the same; a second build of b's chain renders the same when no
\* map argument has two keys or more, and otherwise the same up to the
\* order of the columns (and of their parameters).
C17_DeterministicUpToMapOrder ==
    Rendered => (/\ RenderOf(b) = out.v
                 /\ \A again \in Rebuilds :
                       /\ SingleKeyMaps => RenderOf(again) = out.v
                       /\ b.state = "Complete"
                             => SameUpToColumnOrder(RenderOf(again), out.v, b.kind))

C17_Witness ==
    /\ RenderedOk /\ IsA("update", "Complete")
    /\ Len(b.set_clauses) = 2
    /\ \E again \in Rebuilds : RenderOf(again) # out.v

(***************************************************************************)
(* transaction(pool, f) (executor.rs).  One call of the helper, a step per *)
(* await: begin_transaction, the closure f (which may run statements on    *)
(* the transaction before it returns), then commit or rollback.            *)
(*   txn.pc      where the call is                                         *)
(*   txn.log     the calls made on the pool, on f and on the transaction   *)
(*   txn.f       what f returned, once it has                              *)
(*   txn.result  what transaction() returned to its caller, once it has    *)
(***************************************************************************)
MaxStatements == 2

BeginErrors == {Database(<<"pool timed out">>)}
ExecuteErrors == {Database(<<"connection reset">>), Database(<<"constraint violated">>)}
CommitErrors == {Database(<<"commit failed">>)}
RollbackErrors == {Database(<<"rollback failed">>)}
ClosureValues == {42, 7}
ClosureErrors == {sql_generation(<<"Simulated error">>), invalid_query(<<"no rows">>)}

Called(name, result) == [call |-> name, result |-> result]

Calls(name) == Cardinality({i \in 1..Len(txn.log) : txn.log[i].call = name})

FailedExecutes == {txn.log[i].result.e : i \in {j \in 1..Len(txn.log) :
                       txn.log[j].call = "execute" /\ ~txn.log[j].result.ok}}

\* e.into() with E = crate::Error, the reflexive From impl
into_Error(e) == e

TransactionInit ==
    /\ b \in {insert(t) : t \in Tables}
    /\ out = None
    /\ whereCalls = <<>>
    /\ joinCalls = <<>>
    /\ orderCalls = <<>>
    /\ mapCall = None
    /\ conv = NotCalled
    /\ cl = NotCalled
    /\ ex = NotCalled
    /\ txn = [pc |-> "begin", log |-> <<>>, f |-> None, result |-> None]

NotTransaction ==
    UNCHANGED <<b, out, whereCalls, joinCalls, orderCalls, mapCall, conv, cl, ex>>

\* let mut txn = pool.begin_transaction().await?;
transaction_begin ==
    /\ txn.pc = "begin"
    /\ \E r \in {Ok(<<>>)} \cup {Err(e) : e \in BeginErrors} :
           txn' = [txn EXCEPT !.log = Append(@, Called("begin_transaction", r)),
                              !.pc = IF r.ok THEN "call f" ELSE "returned",
                              !.result = IF r.ok THEN None ELSE Some(Err(r.e))]
    /\ NotTransaction

\* f(&mut txn)
transaction_f ==
    /\ txn.pc = "call f"
    /\ txn' = [txn EXCEPT !.log = Append(@, Called("f", Ok(<<>>))), !.pc = "in f"]
    /\ NotTransaction

\* inside f: a statement on the transaction, which the database answers
f_execute ==
    /\ txn.pc = "in f"
    /\ Calls("execute") < MaxStatements
    /\ \E r \in {Ok(<<>>)} \cup {Err(e) : e \in ExecuteErrors} :
           txn' = [txn EXCEPT !.log = Append(@, Called("execute", r))]
    /\ NotTransaction

\* f returns: a value, an error of its own, or the error of a statement
f_return ==
    /\ txn.pc = "in f"
    /\ \E r \in {Ok(v) : v \in ClosureValues}
                \cup {Err(e) : e \in ClosureErrors \cup FailedExecutes} :
           txn' = [txn EXCEPT !.f = Some(r), !.pc = "f returned"]
    /\ NotTransaction

\* a commit whose failure is dropped: f's value is reported all the same
Mut_transaction_commit ==
    /\ txn.pc = "f returned"
    /\ txn.f.v.ok
    /\ \E r \in {Ok(<<>>)} \cup {Err(e) : e \in CommitErrors} :
           txn' = [txn EXCEPT !.log = Append(@, Called("commit", r)),
                              !.pc = "returned",
                              !.result = Some(Ok(txn.f.v.v))]
    /\ NotTransaction

\* Ok(result) => { txn.commit().await?; Ok(result) }
transaction_commit ==
    /\ txn.pc = "f returned"
    /\ txn.f.v.ok
    /\ \E r \in {Ok(<<>>)} \cup {Err(e) : e \in CommitErrors} :
           txn' = [txn EXCEPT !.log = Append(@, Called("commit", r)),
                              !.pc = "returned",
                              !.result = IF r.ok THEN Some(Ok(txn.f.v.v))
                                         ELSE Some(Err(r.e))]
    /\ NotTransaction

\* a rollback whose own failure reaches the caller
Mut_transaction_rollback ==
    /\ txn.pc = "f returned"
    /\ ~txn.f.v.ok
    /\ \E r \in {Ok(<<>>)} \cup {Err(e) : e \in RollbackErrors} :
           txn' = [txn EXCEPT !.log = Append(@, Called("rollback", r)),
                              !.pc = "returned",
                              !.result = IF r.ok THEN Some(Err(into_Error(txn.f.v.e)))
                                         ELSE Some(Err(r.e))]
    /\ NotTransaction

\* Err(e) => { let _ = txn.rollback().await; Err(e.into()) }
transaction_rollback ==
    /\ txn.pc = "f returned"
    /\ ~txn.f.v.ok
    /\ \E r \in {Ok(<<>>)} \cup {Err(e) : e \in RollbackErrors} :
           txn' = [txn EXCEPT !.log = Append(@, Called("rollback", r)),
                              !.pc = "returned",
                              !.result = Some(Err(into_Error(txn.f.v.e)))]
    /\ NotTransaction

TransactionNext ==
    \/ transaction_begin
    \/ transaction_f
    \/ f_execute
    \/ f_return
    \/ transaction_commit
    \/ transaction_rollback

SpecTransaction == TransactionInit /\ [][TransactionNext]_vars

BeginSucceeded ==
    /\ txn.log # <<>>
    /\ txn.log[1] = Called("begin_transaction", Ok(<<>>))

Finished == Calls("commit") + Calls("rollback")

\* C18: once begin_transaction has succeeded, f runs exactly once and then
\* exactly one of commit and rollback is called: commit if and only if f
\* returned Ok, rollback if and only if f returned Err; nothing is called on
\* the transaction after that; and when f returned Err the caller of
\* transaction() receives f's own error, whether or not rollback succeeded.
C18_CommitOrRollbackExactlyOnce ==
    txn.pc # "not called" =>
        /\ Calls("f") <= 1
        /\ Finished <= 1
        /\ Calls("f") = 1 => BeginSucceeded
        /\ Finished = 1 =>
               /\ Calls("f") = 1
               /\ txn.f.some
               /\ txn.log[Len(txn.log)].call \in {"commit", "rollback"}
               /\ Calls("commit") = 1 <=> txn.f.v.ok
               /\ Calls("rollback") = 1 <=> ~txn.f.v.ok
        /\ (txn.pc = "returned" /\ BeginSucceeded) =>
               /\ Calls("f") = 1
               /\ Finished = 1
               /\ ~txn.f.v.ok => txn.result = Some(Err(txn.f.v.e))

\* f failed, rollback failed too, and the caller has f's error
C18_Witness ==
    /\ txn.pc = "returned"
    /\ BeginSucceeded
    /\ Calls("execute") = MaxStatements
    /\ ~txn.f.v.ok
    /\ txn.log[Len(txn.log)].call = "rollback"
    /\ ~txn.log[Len(txn.log)].result.ok
    /\ txn.result = Some(Err(txn.f.v.e))
    /\ txn.result.v.e # txn.log[Len(txn.log)].result.e

(***************************************************************************)
(* One operator argument (operator.rs): the caller gives a string or an    *)
(* Operator, into_operator() converts it, validate() judges it, and a      *)
(* query that uses it in a WHERE condition is rendered.                    *)
(*   conv.input  the argument: [from |-> "str", s] or [from |-> "operator"]*)
(*   conv.op     into_operator() of the argument                           *)
(*   conv.valid  validate() of conv.op, once called                        *)
(*   conv.sql    to_sql() of the query using it, once called               *)
(***************************************************************************)
Symbols == {"=", "!=", ">", "<", ">=", "<="}

\* each keyword operator: its token, then an upper-, a lower- and a
\* mixed-case spelling of it
KeywordSpellings ==
    {<<"LIKE", "LIKE", "like", "Like">>,
     <<"ILIKE", "ILIKE", "ilike", "ILike">>,
     <<"IN", "IN", "in", "In">>,
     <<"NOT IN", "NOT IN", "not in", "Not In">>,
     <<"IS NULL", "IS NULL", "is null", "Is Null">>,
     <<"IS NOT NULL", "IS NOT NULL", "is not null", "is NOT null">>,
     <<"EXISTS", "EXISTS", "exists", "Exists">>,
     <<"NOT EXISTS", "NOT EXISTS", "not exists", "Not exists">>}

OtherStrings == {"BAD", "<>", "between", ""}

OperatorStrings ==
    Symbols \cup {k[i] : k \in KeywordSpellings, i \in 2..4} \cup OtherStrings

CustomTokens == {"@@", "~*"}

OperatorConstants ==
    {Operator_GT, Operator_LT, Operator_EQ, Operator_NEQ, Operator_GTE,
     Operator_LTE, Operator_LIKE, Operator_ILIKE, Operator_IN, Operator_NOT_IN,
     Operator_IS_NULL, Operator_IS_NOT_NULL, Operator_EXISTS, Operator_NOT_EXISTS}

OperatorInputs ==
    {[from |-> "str", s |-> s] : s \in OperatorStrings}
    \cup {[from |-> "operator", op |-> o] :
             o \in OperatorConstants \cup {custom(t) : t \in CustomTokens}
                   \cup {Unknown("~~")}}

\* impl IntoOperator for Operator
Operator_into_operator(o) == o

OperatorInit ==
    /\ b \in {from(t) : t \in SelectTables}
    /\ out = None
    /\ whereCalls = <<>>
    /\ joinCalls = <<>>
    /\ orderCalls = <<>>
    /\ mapCall = None
    /\ txn = NotCalled
    /\ cl = NotCalled
    /\ ex = NotCalled
    /\ \E input \in OperatorInputs :
           conv = [pc |-> "given", input |-> input, op |-> None,
                   valid |-> None, sql |-> None]

NotOperator ==
    UNCHANGED <<b, out, whereCalls, joinCalls, orderCalls, mapCall, txn, cl, ex>>

Call_into_operator ==
    /\ conv.pc = "given"
    /\ conv' = [conv EXCEPT
                   !.op = Some(IF conv.input.from = "str"
                               THEN str_into_operator(conv.input.s)
                               ELSE Operator_into_operator(conv.input.op)),
                   !.pc = "converted"]
    /\ NotOperator

Call_validate ==
    /\ conv.pc = "converted"
    /\ conv' = [conv EXCEPT !.valid = Some(validate(conv.op.v)), !.pc = "validated"]
    /\ NotOperator

\* from(table).select_all().where_((column, op, value)).to_sql(), with the
\* argument given to where_ as the caller gave it
QueryUsing(input) ==
    SelectBuilderComplete_where_(
        SelectBuilderInitial_select_all(b),
        IF input.from = "str"
        THEN [shape |-> "csv", column |-> "name", op_str |-> input.s,
              value |-> Value_String("x")]
        ELSE [shape |-> "cov", column |-> "name", op |-> input.op,
              value |-> Value_String("x")])

Call_to_sql ==
    /\ conv.pc = "validated"
    /\ conv' = [conv EXCEPT !.sql = Some(to_sql(QueryUsing(conv.input))),
                            !.pc = "rendered"]
    /\ NotOperator

OperatorNext ==
    \/ Call_into_operator
    \/ Call_validate
    \/ Call_to_sql

SpecOperator == OperatorInit /\ [][OperatorNext]_vars

Converted == conv.pc \in {"converted", "validated", "rendered"}

\* C19: converting a string to an operator is total and case-insensitive:
\* every upper-, lower- or mixed-case spelling of a keyword operator becomes
\* that known operator, each symbol becomes its known operator, and every
\* other string is wrapped as Unknown.
C19_StringConversionIgnoresCase ==
    (Converted /\ conv.input.from = "str") =>
        LET s == conv.input.s
            spelled == {k \in KeywordSpellings : s \in {k[2], k[3], k[4]}}
        IN /\ conv.op.some
           /\ conv.op.v = (IF spelled # {}
                           THEN Known((CHOOSE k \in spelled : TRUE)[1])
                           ELSE IF s \in Symbols THEN Known(s)
                           ELSE Unknown(s))

\* C20: validate() fails if and only if the operator is the Unknown variant;
\* every predefined constant and every Operator::custom(token) validates, and
\* a query using a custom operator renders with the token verbatim.
C20_ValidateFailsIffUnknown ==
    /\ (conv.pc \in {"validated", "rendered"}) =>
           /\ ~conv.valid.v.ok <=> conv.op.v.variant = "Unknown"
           /\ ~conv.valid.v.ok => conv.valid.v.e.variant = "InvalidQuery"
           /\ (conv.input.from = "operator" /\ conv.input.op.variant = "Known")
                  => conv.valid.v = Ok(<<>>)
    /\ conv.pc = "rendered" =>
           /\ conv.sql.v.ok <=> conv.valid.v.ok
           /\ conv.sql.v.ok =>
                  Concat(conv.sql.v.v)
                      = Concat(<<"SELECT * FROM ", b.table_name, " WHERE name ",
                                 conv.op.v.op, " ?">>)

\* a query with the custom operator "@@" has been rendered
C20_Witness ==
    /\ conv.pc = "rendered"
    /\ conv.input = [from |-> "operator", op |-> custom("@@")]
    /\ conv.valid.v.ok
    /\ conv.sql.v.ok
    /\ \E i \in 1..Len(conv.sql.v.v) : conv.sql.v.v[i] = "@@"

(***************************************************************************)
(* C21.  The condition shorthands (c, v), (c, op::EQ, v) and (c, "=", v)   *)
(* build the same condition, so every method that takes a condition gives  *)
(* the same builder, the same SQL and the same parameters for the three.   *)
(***************************************************************************)
ShorthandColumns == {"id"}
ShorthandValues == {Value_I32(1), Value_String("x")}

Shorthands(c, v) ==
    {[shape |-> "cv", column |-> c, value |-> v],
     [shape |-> "cov", column |-> c, op |-> Operator_EQ, value |-> v],
     [shape |-> "csv", column |-> c, op_str |-> "=", value |-> v]}

\* the methods of a builder that take a condition
ConditionMethods(self) ==
    CASE self.kind = "select" ->
            {"where_", "or_where", "and_where", "having", "and_having", "or_having"}
      [] self.kind = "update" /\ self.state = "WithSet" -> {"where_", "and_where"}
      [] self.kind = "update" /\ self.state = "Complete" ->
            {"where_", "and_where", "or_where"}
      [] self.kind = "delete" /\ self.state = "Initial" -> {"where_"}
      [] self.kind = "delete" /\ self.state = "Complete" ->
            {"where_", "or_where", "and_where"}
      [] OTHER -> {}

CallWithCondition(self, method, c) ==
    CASE self.kind = "select" /\ self.state = "Initial" ->
            (CASE method = "where_" -> SelectBuilderInitial_where_(self, c)
               [] method = "or_where" -> SelectBuilderInitial_or_where(self, c)
               [] method = "and_where" -> SelectBuilderInitial_and_where(self, c)
               [] method = "having" -> SelectBuilderInitial_having(self, c)
               [] method = "and_having" -> SelectBuilderInitial_and_having(self, c)
               [] method = "or_having" -> SelectBuilderInitial_or_having(self, c))
      [] self.kind = "select" /\ self.state = "Complete" ->
            (CASE method = "where_" -> SelectBuilderComplete_where_(self, c)
               [] method = "or_where" -> SelectBuilderComplete_or_where(self, c)
               [] method = "and_where" -> SelectBuilderComplete_and_where(self, c)
               [] method = "having" -> SelectBuilderComplete_having(self, c)
               [] method = "and_having" -> SelectBuilderComplete_and_having(self, c)
               [] method = "or_having" -> SelectBuilderComplete_or_having(self, c))
      [] self.kind = "update" /\ self.state = "WithSet" ->
            (CASE method = "where_" -> UpdateBuilderWithSet_where_(self, c)
               [] method = "and_where" -> UpdateBuilderWithSet_and_where(self, c))
      [] self.kind = "update" /\ self.state = "Complete" ->
            (CASE method = "where_" -> UpdateBuilderComplete_where_(self, c)
               [] method = "and_where" -> UpdateBuilderComplete_and_where(self, c)
               [] method = "or_where" -> UpdateBuilderComplete_or_where(self, c))
      [] self.kind = "delete" /\ self.state = "Initial" ->
            DeleteBuilderInitial_where_(self, c)
      [] self.kind = "delete" /\ self.state = "Complete" ->
            (CASE method = "where_" -> DeleteBuilderComplete_where_(self, c)
               [] method = "or_where" -> DeleteBuilderComplete_or_where(self, c)
               [] method = "and_where" -> DeleteBuilderComplete_and_where(self, c))

\* C21: for every column and value the three shorthands convert to one
\* condition, and on the builder built so far every condition method
\* returns one and the same builder value for the three, hence one SQL and
\* one parameter list, both being read from that value.
C21_ShorthandsAgree ==
    out = None =>
        \A c \in ShorthandColumns, v \in ShorthandValues :
            /\ Cardinality({into_condition(x) : x \in Shorthands(c, v)}) = 1
            /\ \A method \in ConditionMethods(b) :
                   Cardinality({CallWithCondition(b, method, x) :
                                   x \in Shorthands(c, v)}) = 1

\* a query whose condition came from a shorthand has been rendered
C21_Witness ==
    /\ RenderedOk
    /\ whereCalls # <<>>
    /\ \E x \in Shorthands("id", Value_I32(1)) :
           \E i \in 1..Len(b.where_conditions) :
               /\ b.where_conditions[i].column = into_condition(x).column
               /\ b.where_conditions[i].operator = into_condition(x).operator
               /\ b.where_conditions[i].value = into_condition(x).value

(***************************************************************************)
(* C22.  as_alias on a plain Column returns the selector as it was; on an  *)
(* Aggregate, CountAll or SubqueryColumn it replaces the alias, so the     *)
(* last of several as_alias calls is the one printed after AS.             *)
(***************************************************************************)
AliasedSelectors ==
    {Column("status"), CountAll(None), CountAll(Some("old")),
     Aggregate("Sum", "total", None),
     SubqueryColumn(Subquery_new(SubSimple), None)}

AliasNames == {"n", "total"}

\* the column list a query prints, a subquery kept as one piece
PrintedColumns(sql) == Section(sql, "SELECT ")

ArrayValues ==
    {Value_Array(<<>>),
     Value_Array(<<Value_I32(100)>>),
     Value_Array(<<Value_I32(100), Value_I32(200), Value_I32(300)>>)}

ArrayCondition(v) ==
    [shape |-> "cov", column |-> "score", op |-> Operator_IN, value |-> v]

\* C23: on the builder built so far, when it renders, every condition
\* method given an Array value returns a builder that renders one more "?"
\* and whose parameters() are the old ones followed by the Array.
C23_ArrayIsOnePlaceholder ==
    \A v \in ArrayValues, method \in ConditionMethods(b) :
        LET before == RenderOf(b)
            after == RenderOf(CallWithCondition(b, method, ArrayCondition(v)))
        IN (before.sql.ok /\ after.sql.ok) =>
               /\ CountPlaceholders(after.sql.v) = CountPlaceholders(before.sql.v) + 1
               /\ after.parameters = before.parameters \o <<v>>

(***************************************************************************)
(* C24.  select(columns) may come before, between or after the clause      *)
(* calls of a SELECT chain: the Initial-to-Complete transition carries     *)
(* every clause and parameter over, so the SQL and parameters() agree.     *)
(***************************************************************************)
\* the clause calls both SELECT states offer, with the caller's arguments
ClauseCalls ==
    {[method |-> m, condition |-> c] :
        m \in {"where_", "or_where", "and_where"}, c \in WhereConditions}
    \cup {[method |-> m, condition |-> c] :
        m \in {"having", "and_having", "or_having"}, c \in HavingConditions}
    \cup {[method |-> m, subquery |-> q] :
        m \in {"where_in", "where_not_in", "where_exists", "where_not_exists"},
        q \in Subqueries}
    \cup {[method |-> m] :
        m \in {"inner_join", "left_join", "right_join", "full_outer_join",
               "cross_join", "order_by_asc", "order_by_desc"}}
    \cup {[method |-> "join", join |-> a] : a \in JoinArguments}
    \cup {[method |-> "group_by", columns |-> c] : c \in GroupByColumns}
    \cup {[method |-> "order_by", direction |-> d] : d \in {"Asc", "Desc"}}
    \cup {[method |-> "limit", n |-> n] : n \in Limits}
    \cup {[method |-> "offset", n |-> n] : n \in Offsets}

CallInitial(self, call) ==
    CASE call.method = "where_" -> SelectBuilderInitial_where_(self, call.condition)
      [] call.method = "or_where" -> SelectBuilderInitial_or_where(self, call.condition)
      [] call.method = "and_where" -> SelectBuilderInitial_and_where(self, call.condition)
      [] call.method = "having" -> SelectBuilderInitial_having(self, call.condition)
      [] call.method = "and_having" -> SelectBuilderInitial_and_having(self, call.condition)
      [] call.method = "or_having" -> SelectBuilderInitial_or_having(self, call.condition)
      [] call.method = "where_in" -> SelectBuilderInitial_where_in(self, "id", call.subquery)
      [] call.method = "where_not_in" ->
            SelectBuilderInitial_where_not_in(self, "id", call.subquery)
      [] call.method = "where_exists" -> SelectBuilderInitial_where_exists(self, call.subquery)
      [] call.method = "where_not_exists" ->
            SelectBuilderInitial_where_not_exists(self, call.subquery)
      [] call.method = "inner_join" ->
            SelectBuilderInitial_inner_join(self, "posts", "users.id", "posts.user_id")
      [] call.method = "left_join" ->
            SelectBuilderInitial_left_join(self, "posts", "users.id", "posts.user_id")
      [] call.method = "right_join" ->
            SelectBuilderInitial_right_join(self, "posts", "users.id", "posts.user_id")
      [] call.method = "full_outer_join" ->
            SelectBuilderInitial_full_outer_join(self, "posts", "users.id", "posts.user_id")
      [] call.method = "cross_join" -> SelectBuilderInitial_cross_join(self, "roles")
      [] call.method = "join" ->
            SelectBuilderInitial_join(self, call.join.join_type, "profiles", "users.id",
                                      call.join.operator, "profiles.user_id")
      [] call.method = "group_by" -> SelectBuilderInitial_group_by(self, call.columns)
      [] call.method = "order_by" -> SelectBuilderInitial_order_by(self, "name", call.direction)
      [] call.method = "order_by_asc" -> SelectBuilderInitial_order_by_asc(self, "name")
      [] call.method = "order_by_desc" -> SelectBuilderInitial_order_by_desc(self, "name")
      [] call.method = "limit" -> SelectBuilderInitial_limit(self, call.n)
      [] call.method = "offset" -> SelectBuilderInitial_offset(self, call.n)

CallComplete(self, call) ==
    CASE call.method = "where_" -> SelectBuilderComplete_where_(self, call.condition)
      [] call.method = "or_where" -> SelectBuilderComplete_or_where(self, call.condition)
      [] call.method = "and_where" -> SelectBuilderComplete_and_where(self, call.condition)
      [] call.method = "having" -> SelectBuilderComplete_having(self, call.condition)
      [] call.method = "and_having" -> SelectBuilderComplete_and_having(self, call.condition)
      [] call.method = "or_having" -> SelectBuilderComplete_or_having(self, call.condition)
      [] call.method = "where_in" -> SelectBuilderComplete_where_in(self, "id", call.subquery)
      [] call.method = "where_not_in" ->
            SelectBuilderComplete_where_not_in(self, "id", call.subquery)
      [] call.method = "where_exists" -> SelectBuilderComplete_where_exists(self, call.subquery)
      [] call.method = "where_not_exists" ->
            SelectBuilderComplete_where_not_exists(self, call.subquery)
      [] call.method = "inner_join" ->
            SelectBuilderComplete_inner_join(self, "posts", "users.id", "posts.user_id")
      [] call.method = "left_join" ->
            SelectBuilderComplete_left_join(self, "posts", "users.id", "posts.user_id")
      [] call.method = "right_join" ->
            SelectBuilderComplete_right_join(self, "posts", "users.id", "posts.user_id")
      [] call.method = "full_outer_join" ->
            SelectBuilderComplete_full_outer_join(self, "posts", "users.id", "posts.user_id")
      [] call.method = "cross_join" -> SelectBuilderComplete_cross_join(self, "roles")
      [] call.method = "join" ->
            SelectBuilderComplete_join(self, call.join.join_type, "profiles", "users.id",
                                       call.join.operator, "profiles.user_id")
      [] call.method = "group_by" -> SelectBuilderComplete_group_by(self, call.columns)
      [] call.method = "order_by" -> SelectBuilderComplete_order_by(self, "name", call.direction)
      [] call.method = "order_by_asc" -> SelectBuilderComplete_order_by_asc(self, "name")
      [] call.method = "order_by_desc" -> SelectBuilderComplete_order_by_desc(self, "name")
      [] call.method = "limit" -> SelectBuilderComplete_limit(self, call.n)
      [] call.method = "offset" -> SelectBuilderComplete_offset(self, call.n)

\* C24: on every Initial builder the chain reaches, select followed by a
\* clause call and the clause call followed by select give one and the same
\* builder value, hence one SQL and one parameters(), both being read from
\* that value; step by step, this moves select to any position of the chain.
C24_SelectPositionDoesNotMatter ==
    (IsA("select", "Initial") /\ out = None) =>
        \A columns \in SelectColumns, call \in ClauseCalls :
            LET early == CallComplete(SelectBuilderInitial_select(b, columns), call)
                late == SelectBuilderInitial_select(CallInitial(b, call), columns)
            IN early = late

\* a rendered query that is both where_ then select and select then where_
C24_Witness ==
    /\ RenderedOk
    /\ IsA("select", "Complete")
    /\ Len(whereCalls) = 1
    /\ Params # <<>>
    /\ \E columns \in SelectColumns, t \in SelectTables :
       \E call \in {c \in ClauseCalls : c.method = "where_"} :
           /\ b = SelectBuilderInitial_select(CallInitial(from(t), call), columns)
           /\ b = CallComplete(SelectBuilderInitial_select(from(t), columns), call)
           /\ out.v = RenderOf(CallComplete(SelectBuilderInitial_select(from(t), columns),
                                             call))

(***************************************************************************)
(* C25.  Builders are values.  The builders of this specification live in  *)
(* memory: cl.heap[a] is the builder stored at address a, a method takes    *)
(* its receiver by value (mut self) and changes it where it is, and         *)
(* clone_builder() stores a copy at a new address.                          *)
(*   cl.heap      the builders in memory, by address; the base is at 1      *)
(*   cl.chains    the addresses of the clones taken from the base           *)
(*   cl.calls     per clone, the calls made on it since it was taken        *)
(*   cl.original  the base as it was when the first clone was taken         *)
(*   cl.made      the calls made so far                                     *)
(***************************************************************************)
MaxCloneCalls == 3

CloneConditions ==
    {[shape |-> "cov", column |-> "age", op |-> Operator_GT, value |-> Value_I32(18)],
     [shape |-> "cv", column |-> "name", value |-> Value_String("John")]}

CloneMap == [name |-> Value_String("Jane")]

\* the calls the model makes on a builder held in memory
CloneCallsOn(self) ==
    CASE self.kind = "select" /\ self.state = "Initial" ->
            {[method |-> "select", columns |-> [shape |-> "str", s |-> "name"]]}
            \cup {[method |-> "where_", condition |-> c] : c \in CloneConditions}
      [] self.kind = "select" /\ self.state = "Complete" ->
            {[method |-> m, condition |-> c] :
                m \in {"where_", "or_where"}, c \in CloneConditions}
            \cup {[method |-> "limit", n |-> n] : n \in Limits}
      [] self.kind = "update" /\ self.state = "Initial" ->
            {[method |-> "set", data |-> CloneMap, order |-> o] :
                o \in IterationOrders(CloneMap)}
      [] self.kind = "insert" /\ self.state = "Initial" ->
            {[method |-> "values", data |-> CloneMap, order |-> o] :
                o \in IterationOrders(CloneMap)}
      [] self.kind = "insert" /\ self.state = "Complete" -> {}
      [] OTHER ->
            {[method |-> m, condition |-> c] :
                m \in ConditionMethods(self), c \in CloneConditions}

ApplyCloneCall(self, call) ==
    CASE call.method = "select" -> SelectBuilderInitial_select(self, call.columns)
      [] call.method = "set" -> UpdateBuilderInitial_set(self, call.data, call.order)
      [] call.method = "values" -> InsertBuilderInitial_values(self, call.data, call.order)
      [] call.method = "limit" -> SelectBuilderComplete_limit(self, call.n)
      [] OTHER -> CallWithCondition(self, call.method, call.condition)

\* a clone that hands out the address of the builder it was asked to copy
Mut_clone_builder(heap, self) == [heap |-> heap, handle |-> self]

\* self.clone(): the derived Clone copies every field into a new builder
clone_builder(heap, self) ==
    [heap |-> Append(heap, heap[self]), handle |-> Len(heap) + 1]

CloneInit ==
    /\ b \in {from(t) : t \in SelectTables}
    /\ out = None
    /\ whereCalls = <<>>
    /\ joinCalls = <<>>
    /\ orderCalls = <<>>
    /\ mapCall = None
    /\ txn = NotCalled
    /\ conv = NotCalled
    /\ ex = NotCalled
    /\ \E base \in {from(t) : t \in SelectTables} \cup {insert(t) : t \in Tables}
                   \cup {update(t) : t \in Tables} \cup {delete(t) : t \in Tables} :
           cl = [pc |-> "base", heap |-> <<base>>, chains |-> <<>>, calls |-> <<>>,
                 original |-> None, made |-> 0]

NotClone ==
    UNCHANGED <<b, out, whereCalls, joinCalls, orderCalls, mapCall, txn, conv, ex>>

\* the base is built: a method call on the builder at address 1
Call_on_base ==
    /\ cl.pc = "base"
    /\ cl.made < MaxCloneCalls
    /\ \E call \in CloneCallsOn(cl.heap[1]) :
           cl' = [cl EXCEPT !.heap[1] = ApplyCloneCall(@, call), !.made = @ + 1]
    /\ NotClone

\* base.clone_builder()
Call_clone_builder ==
    /\ cl.pc \in {"base", "cloned"}
    /\ Len(cl.chains) < 2
    /\ LET r == clone_builder(cl.heap, 1)
       IN cl' = [cl EXCEPT !.pc = "cloned",
                           !.heap = r.heap,
                           !.chains = Append(@, r.handle),
                           !.calls = Append(@, <<>>),
                           !.original = IF cl.original.some THEN @ ELSE Some(cl.heap[1])]
    /\ NotClone

\* a method call on one of the clones
Call_on_clone ==
    /\ cl.pc = "cloned"
    /\ cl.made < MaxCloneCalls
    /\ \E i \in 1..Len(cl.chains) :
       \E call \in CloneCallsOn(cl.heap[cl.chains[i]]) :
           cl' = [cl EXCEPT !.heap[cl.chains[i]] = ApplyCloneCall(@, call),
                            !.calls[i] = Append(@, call),
                            !.made = @ + 1]
    /\ NotClone

CloneNext ==
    \/ Call_on_base
    \/ Call_clone_builder
    \/ Call_on_clone

SpecClone == CloneInit /\ [][CloneNext]_vars

RECURSIVE Replay(_, _)
Replay(self, calls) ==
    IF calls = <<>> THEN self
    ELSE Replay(ApplyCloneCall(self, Head(calls)), Tail(calls))

\* C25: whatever is called on the clones, the base is the builder it was
\* when cloned and renders the same SQL and parameters(); and every clone
\* is what its own calls make of that base, whatever was called on the
\* other clone.
C25_BuildersAreValues ==
    (cl.pc = "cloned") =>
        /\ cl.heap[1] = cl.original.v
        /\ RenderOf(cl.heap[1]) = RenderOf(cl.original.v)
        /\ \A i \in 1..Len(cl.chains) :
               LET alone == Replay(cl.original.v, cl.calls[i])
               IN /\ cl.heap[cl.chains[i]] = alone
                  /\ RenderOf(cl.heap[cl.chains[i]]) = RenderOf(alone)

\* a renderable SELECT was cloned twice and the two clones were taken
\* different ways: they render different SQL, the base renders as before
C25_Witness ==
    /\ cl.pc = "cloned"
    /\ Len(cl.chains) = 2
    /\ cl.calls[1] # <<>> /\ cl.calls[2] # <<>>
    /\ to_sql(cl.heap[1]).ok
    /\ to_sql(cl.heap[cl.chains[1]]).ok
    /\ to_sql(cl.heap[cl.chains[2]]).ok
    /\ to_sql(cl.heap[cl.chains[1]]) # to_sql(cl.heap[cl.chains[2]])
    /\ to_sql(cl.heap[cl.chains[1]]) # to_sql(cl.heap[1])
    /\ RenderOf(cl.heap[1]) = RenderOf(cl.original.v)

(***************************************************************************)
(* C26.  In a SELECT without subqueries every recorded parameter has its   *)
(* "?": a having call on a builder with no group_by prints its condition   *)
(* and records its value, or does neither.                                 *)
(***************************************************************************)
HasNoSubquery(self) ==
    /\ self.subquery_conditions = <<>>
    /\ SubqueryColumnsOf(self) = <<>>

\* C26: a rendered SELECT without subqueries prints as many "?" as
\* parameters() has values, with or without a GROUP BY.
C26_HavingValueHasPlaceholder ==
    (RenderedOk /\ IsA("select", "Complete") /\ HasNoSubquery(b))
    => CountPlaceholders(Sql) = Len(Params)

(***************************************************************************)
(* C27.  The parameters() of a rendered INSERT are the values of all its   *)
(* rows, row by row, in the order of the "?" of the VALUES groups.         *)
(***************************************************************************)
\* C27: a rendered INSERT has as many parameters as "?", and they are the
\* rows' values in row order.
C27_InsertParametersAreRowValues ==
    (RenderedOk /\ IsA("insert", "Complete"))
    => /\ Params = Flatten(b.values)
       /\ Len(Params) = CountPlaceholders(Sql)

(***************************************************************************)
(* C28.  An INSERT built with values_many prints one VALUES group per row, *)
(* each with one "?" per listed column, and the j-th value of every row    *)
(* is the row's value for the j-th listed column.                          *)
(***************************************************************************)
\* the number of "?" of every VALUES group of a rendered INSERT, in order
PrintedGroups(sql) ==
    LET part == InsertValuesPart(sql)
        opens == Positions(part, LAMBDA i : part[i] = "(")
        closes == Positions(part, LAMBDA i : part[i] = ")")
    IN [g \in 1..Len(opens) |->
           CountPlaceholders(SubSeq(part, opens[g], closes[g]))]

\* C28: the rows are the caller's maps, in order, each laid out along the
\* column list.
C28_RowsFollowTheColumnList ==
    (RenderedOk /\ IsA("insert", "Complete") /\ mapCall.v.method = "values_many")
    => LET rows == mapCall.v.data
       IN /\ Len(PrintedGroups(Sql)) = Len(rows)
          /\ Len(b.values) = Len(rows)
          /\ \A i \in 1..Len(rows) :
                 /\ PrintedGroups(Sql)[i] = Len(b.columns)
                 /\ Len(b.values[i]) = Len(b.columns)
                 /\ \A j \in 1..Len(b.columns) :
                        /\ b.columns[j] \in DOMAIN rows[i]
                        /\ b.values[i][j] = rows[i][b.columns[j]]

(***************************************************************************)
(* transaction() and uncommitted work (executor.rs 141-163).               *)
(***************************************************************************)
BeginFailed ==
    /\ txn.log # <<>>
    /\ txn.log[1].call = "begin_transaction"
    /\ ~txn.log[1].result.ok

CommitCalls == {i \in 1..Len(txn.log) : txn.log[i].call = "commit"}

CommitFailed == \E i \in CommitCalls : ~txn.log[i].result.ok

\* C30: transaction() never reports success for uncommitted work. If
\* begin_transaction fails, its error is returned, f is never run and
\* neither commit nor rollback is called; if f succeeds but commit fails,
\* the commit error is returned instead of f's result and rollback is not
\* called; and Ok is returned only after a commit that succeeded.
C30_NoSuccessWithoutCommit ==
    txn.pc # "not called" =>
        /\ BeginFailed =>
               /\ txn.log = <<Called("begin_transaction", txn.log[1].result)>>
               /\ Calls("f") = 0 /\ Calls("commit") = 0 /\ Calls("rollback") = 0
               /\ txn.pc = "returned"
               /\ txn.result = Some(Err(txn.log[1].result.e))
        /\ CommitFailed =>
               /\ txn.f.some /\ txn.f.v.ok
               /\ Calls("rollback") = 0
               /\ txn.pc = "returned"
               /\ txn.result = Some(Err(txn.log[Len(txn.log)].result.e))
               /\ txn.result # Some(Ok(txn.f.v.v))
        /\ (txn.result.some /\ txn.result.v.ok) =>
               /\ Calls("commit") = 1
               /\ ~CommitFailed
               /\ txn.result = Some(Ok(txn.f.v.v))

\* f ran a statement and returned a value, and the commit then failed
C30_Witness ==
    /\ txn.pc = "returned"
    /\ BeginSucceeded
    /\ Calls("execute") >= 1
    /\ txn.f.some /\ txn.f.v.ok
    /\ CommitFailed
    /\ ~txn.result.v.ok

(***************************************************************************)
(* The execution methods (executor.rs 218-338).  Every method has the same *)
(* three statements:                                                       *)
(*     let sql = self.to_sql()?;                                           *)
(*     let params = self.parameters();                                     *)
(*     pool.<call>(&sql, params).await      (tx.<call> in the _tx methods) *)
(* ex.log is what the pool and the transaction were asked, with what each  *)
(* answered; ex.returned is what each method call handed to its caller,    *)
(* with the builder it was called on and the length of the log before it.  *)
(* The methods take self by value: a builder that is executed again is a   *)
(* clone of b.                                                             *)
(***************************************************************************)
MaxExecutions == 2

ExecutorCondition ==
    [shape |-> "cov", column |-> "age", op |-> Operator_GT, value |-> Value_I32(18)]

ExecutorMap == [name |-> Value_String("Test")]

Rows == {[id |-> 1, name |-> "John"]}
PoolErrors == {Database(<<"Mock database error">>)}

\* what a pool or a transaction can answer to each of its methods
Answers(call) ==
    {Err(e) : e \in PoolErrors} \cup
    (CASE call = "fetch_all" -> {Ok(<<>>)} \cup {Ok(<<row>>) : row \in Rows}
       [] call = "fetch_one" -> {Ok(row) : row \in Rows}
       [] call = "fetch_optional" -> {Ok(None)} \cup {Ok(Some(row)) : row \in Rows}
       [] call = "execute" -> {Ok([rows_affected |-> n]) : n \in {0, 1}})

ExecutorInit ==
    /\ b \in {from(t) : t \in SelectTables} \cup {insert(t) : t \in Tables}
             \cup {update(t) : t \in Tables} \cup {delete(t) : t \in Tables}
    /\ out = None
    /\ whereCalls = <<>>
    /\ joinCalls = <<>>
    /\ orderCalls = <<>>
    /\ mapCall = None
    /\ txn = NotCalled
    /\ conv = NotCalled
    /\ cl = NotCalled
    /\ ex = [pc |-> "ready", log |-> <<>>, returned |-> <<>>]

NotExecutor ==
    UNCHANGED <<out, whereCalls, joinCalls, orderCalls, mapCall, txn, conv, cl>>

\* the caller's next builder method before executing again
Call_next_method ==
    /\ ex.pc = "ready"
    /\ b' \in
         CASE b.kind = "select" /\ b.state = "Initial" ->
                 {SelectBuilderInitial_select_all(b)}
           [] b.kind = "select" /\ b.state = "Complete"
                                /\ b.where_conditions = <<>> ->
                 {SelectBuilderComplete_where_(b, ExecutorCondition)}
           [] b.kind = "insert" /\ b.state = "Initial" ->
                 {InsertBuilderInitial_values(b, ExecutorMap, o) :
                     o \in IterationOrders(ExecutorMap)}
           [] b.kind = "update" /\ b.state = "Initial" ->
                 {UpdateBuilderInitial_set(b, ExecutorMap, o) :
                     o \in IterationOrders(ExecutorMap)}
           [] b.kind = "update" /\ b.state = "WithSet" ->
                 {UpdateBuilderWithSet_where_(b, ExecutorCondition)}
           [] b.kind = "delete" /\ b.state = "Initial" ->
                 {DeleteBuilderInitial_where_(b, ExecutorCondition)}
           [] OTHER -> {}
    /\ UNCHANGED ex
    /\ NotExecutor

\* the three statements of a method, asking `on` (the pool or the
\* transaction) with `call`
Executed(method, on, call) ==
    /\ ex.pc = "ready"
    /\ Len(ex.returned) < MaxExecutions
    /\ LET sql == to_sql(b)
           before == Len(ex.log)
       IN IF ~sql.ok
          THEN ex' = [ex EXCEPT !.returned =
                         Append(@, [method |-> method, query |-> b,
                                    before |-> before, result |-> Err(sql.e)])]
          ELSE LET params == parameters(b)
               IN \E answer \in Answers(call) :
                      ex' = [ex EXCEPT
                               !.log = Append(@, [on |-> on, call |-> call,
                                                  sql |-> sql.v, params |-> params,
                                                  result |-> answer]),
                               !.returned =
                                   Append(@, [method |-> method, query |-> b,
                                              before |-> before, result |-> answer])]
    /\ UNCHANGED b
    /\ NotExecutor

fetch_all == b.kind = "select" /\ Executed("fetch_all", "pool", "fetch_all")

fetch_one == b.kind = "select" /\ Executed("fetch_one", "pool", "fetch_one")

fetch_optional ==
    b.kind = "select" /\ Executed("fetch_optional", "pool", "fetch_optional")

fetch_all_tx == b.kind = "select" /\ Executed("fetch_all_tx", "tx", "fetch_all")

fetch_one_tx == b.kind = "select" /\ Executed("fetch_one_tx", "tx", "fetch_one")

fetch_optional_tx ==
    b.kind = "select" /\ Executed("fetch_optional_tx", "tx", "fetch_optional")

\* an execute that asks the pool before it has rendered
Mut_execute ==
    /\ b.kind \in {"insert", "update", "delete"}
    /\ ex.pc = "ready"
    /\ Len(ex.returned) < MaxExecutions
    /\ LET sql == to_sql(b)
           params == parameters(b)
           before == Len(ex.log)
       IN \E answer \in Answers("execute") :
              ex' = [ex EXCEPT
                       !.log = Append(@, [on |-> "pool", call |-> "execute",
                                          sql |-> IF sql.ok THEN sql.v ELSE <<>>,
                                          params |-> params, result |-> answer]),
                       !.returned =
                           Append(@, [method |-> "execute", query |-> b,
                                      before |-> before,
                                      result |-> IF sql.ok THEN answer
                                                 ELSE Err(sql.e)])]
    /\ UNCHANGED b
    /\ NotExecutor

execute ==
    b.kind \in {"insert", "update", "delete"} /\ Executed("execute", "pool", "execute")

execute_tx ==
    b.kind \in {"insert", "update", "delete"} /\ Executed("execute_tx", "tx", "execute")

ExecutorNext ==
    \/ Call_next_method
    \/ fetch_all
    \/ fetch_one
    \/ fetch_optional
    \/ fetch_all_tx
    \/ fetch_one_tx
    \/ fetch_optional_tx
    \/ execute
    \/ execute_tx

SpecExecutor == ExecutorInit /\ [][ExecutorNext]_vars

\* whom a method asks, and with which of the four calls
AskedBy(method) ==
    CASE method = "fetch_all" -> [on |-> "pool", call |-> "fetch_all"]
      [] method = "fetch_one" -> [on |-> "pool", call |-> "fetch_one"]
      [] method = "fetch_optional" -> [on |-> "pool", call |-> "fetch_optional"]
      [] method = "execute" -> [on |-> "pool", call |-> "execute"]
      [] method = "fetch_all_tx" -> [on |-> "tx", call |-> "fetch_all"]
      [] method = "fetch_one_tx" -> [on |-> "tx", call |-> "fetch_one"]
      [] method = "fetch_optional_tx" -> [on |-> "tx", call |-> "fetch_optional"]
      [] method = "execute_tx" -> [on |-> "tx", call |-> "execute"]

\* the length of the log when the i-th method call had returned
LogAfter(i) ==
    IF i < Len(ex.returned) THEN ex.returned[i + 1].before ELSE Len(ex.log)

\* C29: every execution method renders first. If to_sql() of the builder
\* fails, the method returns the render error and asks nothing of the pool
\* or the transaction; otherwise it makes exactly one call, on the pool (on
\* the transaction for a _tx method), with the rendered SQL and the
\* builder's parameters(), and returns that call's result or error unchanged.
C29_RenderThenOneCall ==
    ex.pc # "not called" =>
        \A i \in 1..Len(ex.returned) :
            LET r == ex.returned[i]
                rendered == to_sql(r.query)
            IN IF ~rendered.ok
               THEN /\ LogAfter(i) = r.before
                    /\ r.result = Err(rendered.e)
               ELSE /\ LogAfter(i) = r.before + 1
                    /\ ex.log[LogAfter(i)].on = AskedBy(r.method).on
                    /\ ex.log[LogAfter(i)].call = AskedBy(r.method).call
                    /\ ex.log[LogAfter(i)].sql = rendered.v
                    /\ ex.log[LogAfter(i)].params = parameters(r.query)
                    /\ r.result = ex.log[LogAfter(i)].result

\* an execute on a builder that does not render, which asked nothing, then
\* an execute_tx on the finished builder, whose database error came back
C29_Witness ==
    /\ ex.pc = "ready"
    /\ Len(ex.returned) = 2
    /\ ex.returned[1].method = "execute"
    /\ ~to_sql(ex.returned[1].query).ok
    /\ ex.returned[1].result = Err(to_sql(ex.returned[1].query).e)
    /\ ex.returned[2].method = "execute_tx"
    /\ Len(ex.log) = 1
    /\ ex.log[1].on = "tx"
    /\ ex.log[1].params # <<>>
    /\ ~ex.log[1].result.ok
    /\ ex.returned[2].result = ex.log[1].result

====
